---- MODULE Spec2Model ----
(***************************************************************************)
(* A model of the in-memory datastore of indradb                          *)
(* (lib/src/memory/datastore.rs) and of the query algebra it evaluates     *)
(* (lib/src/models/queries.rs).                                            *)
(*                                                                         *)
(* Uuids, types, property names and timestamps are ordered values; the     *)
(* model takes them from initial segments of the naturals, which keeps     *)
(* the orderings the BTreeMaps rely on.  0 is Uuid::default() (the nil     *)
(* uuid), Type::default() (the empty type) and "" (the empty name).        *)
(***************************************************************************)
EXTENDS Integers, Sequences, FiniteSets, TLC

\* ------------------------------------------------------------------ bounds
MaxId == 1
MaxType == 2
MaxName == 1
MaxValue == 2
MaxClock == 2
MaxLimit == 1
MaxListLen == 2
MaxEntries == 5
MaxThreads == 2
MaxSecs == 1
MaxNanos == 1
MaxItems == 2
MaxSliceLen == 17

\* u32::MAX.  TLC's integers are 32-bit signed, so the model takes the
\* largest value they hold; like u32::MAX it exceeds the length of every
\* result a datastore of MaxEntries entries can produce.
U32Max == 2147483647

\* const NANOS_PER_SEC
NANOS_PER_SEC == 1000000000

\* The length of the byte slice Uuid::from_slice accepts and as_bytes gives.
UuidLen == 16

NilUuid == 0
EmptyType == 0
EmptyName == 0

Ids == NilUuid..MaxId
Types == 1..MaxType
Names == EmptyName..MaxName
JsonValues == 1..MaxValue
Times == 1..MaxClock
Limits == (0..MaxLimit) \cup {U32Max}

\* Option<T>: None is the empty sequence, Some(x) the one-element sequence.
None == <<>>
Some(x) == <<x>>
IsSome(o) == o # <<>>
Unwrap(o) == o[1]
Option(S) == {None} \cup {Some(x) : x \in S}

Outbound == "EdgeDirection::Outbound"
Inbound == "EdgeDirection::Inbound"
EdgeDirection == {Outbound, Inbound}

\* ------------------------------------------------------------------ models
EdgeKeyNew(outbound_id, t, inbound_id) ==
    [outbound_id |-> outbound_id, t |-> t, inbound_id |-> inbound_id]

EdgeKeys == {EdgeKeyNew(o, t, i) : o \in Ids, t \in Types, i \in Ids}

VertexWithId(id, t) == [id |-> id, t |-> t]

EdgeNew(key, created_datetime) == [key |-> key, created_datetime |-> created_datetime]

VertexPropertyNew(id, value) == [id |-> id, value |-> value]

EdgePropertyNew(key, value) == [key |-> key, value |-> value]

\* derive(Ord) on EdgeKey: lexicographic on (outbound_id, t, inbound_id).
EdgeKeyLt(a, b) ==
    \/ a.outbound_id < b.outbound_id
    \/ a.outbound_id = b.outbound_id /\ a.t < b.t
    \/ a.outbound_id = b.outbound_id /\ a.t = b.t /\ a.inbound_id < b.inbound_id

EdgeKeyLe(a, b) == a = b \/ EdgeKeyLt(a, b)

\* Ord on (Uuid, String).
VertexPropertyKeyLe(a, b) == a[1] < b[1] \/ (a[1] = b[1] /\ a[2] <= b[2])

\* Ord on (EdgeKey, String).
EdgePropertyKeyLe(a, b) == EdgeKeyLt(a[1], b[1]) \/ (a[1] = b[1] /\ a[2] <= b[2])

\* ------------------------------------------------------------ ordered maps
\* A BTreeMap is a function; iterating it visits its keys in ascending order.
RECURSIVE IterIds(_)
IterIds(S) ==
    IF S = {} THEN <<>>
    ELSE LET m == CHOOSE x \in S : \A y \in S : x <= y
         IN <<m>> \o IterIds(S \ {m})

RECURSIVE IterEdgeKeys(_)
IterEdgeKeys(S) ==
    IF S = {} THEN <<>>
    ELSE LET m == CHOOSE x \in S : \A y \in S : EdgeKeyLe(x, y)
         IN <<m>> \o IterEdgeKeys(S \ {m})

RECURSIVE IterVertexPropertyKeys(_)
IterVertexPropertyKeys(S) ==
    IF S = {} THEN <<>>
    ELSE LET m == CHOOSE x \in S : \A y \in S : VertexPropertyKeyLe(x, y)
         IN <<m>> \o IterVertexPropertyKeys(S \ {m})

RECURSIVE IterEdgePropertyKeys(_)
IterEdgePropertyKeys(S) ==
    IF S = {} THEN <<>>
    ELSE LET m == CHOOSE x \in S : \A y \in S : EdgePropertyKeyLe(x, y)
         IN <<m>> \o IterEdgePropertyKeys(S \ {m})

\* RangeIds with a range that leaves its lower end out.
RangeIds_Exclusive(m, lower) == IterIds({k \in DOMAIN m : lower < k})

\* BTreeMap::range(lower..): the keys not below lower, ascending.
RangeIds(m, lower) == IterIds({k \in DOMAIN m : lower <= k})

RangeEdges(m, lower) == IterEdgeKeys({k \in DOMAIN m : EdgeKeyLe(lower, k)})

RangeVertexProperties(m, lower) ==
    IterVertexPropertyKeys({k \in DOMAIN m : VertexPropertyKeyLe(lower, k)})

RangeEdgeProperties(m, lower) ==
    IterEdgePropertyKeys({k \in DOMAIN m : EdgePropertyKeyLe(lower, k)})

\* BTreeMap::insert and BTreeMap::remove.
MapInsert(m, k, v) == [x \in DOMAIN m \cup {k} |-> IF x = k THEN v ELSE m[x]]

MapRemove(m, k) == [x \in DOMAIN m \ {k} |-> m[x]]

EmptyMap == [x \in {} |-> 0]

\* Iterator::take(n).
Take(s, n) == IF Len(s) <= n THEN s ELSE SubSeq(s, 1, n)

\* ----------------------------------------------------------------- queries
VertexQueryAll(start_id, limit) ==
    [type |-> "all", start_id |-> start_id, limit |-> limit]

VertexQueryVertices(ids) == [type |-> "vertices", ids |-> ids]

VertexQueryPipe(edge_query, converter, limit) ==
    [type |-> "pipe", edge_query |-> edge_query, converter |-> converter,
     limit |-> limit]

EdgeQueryEdges(keys) == [type |-> "edges", keys |-> keys]

EdgeQueryPipe(vertex_query, converter, type_filter, high_filter, low_filter, limit) ==
    [type |-> "pipe", vertex_query |-> vertex_query, converter |-> converter,
     type_filter |-> type_filter, high_filter |-> high_filter,
     low_filter |-> low_filter, limit |-> limit]

outbound_edges(self, type_filter, high_filter, low_filter, limit) ==
    EdgeQueryPipe(self, Outbound, type_filter, high_filter, low_filter, limit)

inbound_edges(self, type_filter, high_filter, low_filter, limit) ==
    EdgeQueryPipe(self, Inbound, type_filter, high_filter, low_filter, limit)

outbound_vertices(self, limit) == VertexQueryPipe(self, Outbound, limit)

inbound_vertices(self, limit) == VertexQueryPipe(self, Inbound, limit)

\* ------------------------------------------------- InternalMemoryDatastore
\* self is the record of the four maps; a vertex value is <<id, type>> and
\* an edge value <<key, update_datetime>>.
InternalMemoryDatastore(edge_properties, edges, vertex_properties, vertices) ==
    [edge_properties |-> edge_properties, edges |-> edges,
     vertex_properties |-> vertex_properties, vertices |-> vertices]

\* HydrateVertices that returns a vertex once however often its id is listed.
RECURSIVE HydrateVertices_Dedup(_, _)
HydrateVertices_Dedup(self, ids) ==
    IF ids = <<>> THEN <<>>
    ELSE LET id == Head(ids)
             rest == SelectSeq(Tail(ids), LAMBDA x : x # id)
         IN (IF id \in DOMAIN self.vertices
             THEN <<(<<id, self.vertices[id]>>)>>
             ELSE <<>>) \o HydrateVertices_Dedup(self, rest)

\* for id in ids { if let Some(value) = self.vertices.get(id) { push } }
RECURSIVE HydrateVertices(_, _)
HydrateVertices(self, ids) ==
    IF ids = <<>> THEN <<>>
    ELSE LET id == Head(ids)
         IN (IF id \in DOMAIN self.vertices
             THEN <<(<<id, self.vertices[id]>>)>>
             ELSE <<>>) \o HydrateVertices(self, Tail(ids))

\* for key in keys { if let Some(update_datetime) = self.edges.get(key) { push } }
RECURSIVE HydrateEdges(_, _)
HydrateEdges(self, keys) ==
    IF keys = <<>> THEN <<>>
    ELSE LET key == Head(keys)
         IN (IF key \in DOMAIN self.edges
             THEN <<(<<key, self.edges[key]>>)>>
             ELSE <<>>) \o HydrateEdges(self, Tail(keys))

\* The lower bound of the outbound range scan.
LowerBound(id, type_filter) ==
    IF IsSome(type_filter)
    THEN EdgeKeyNew(id, Unwrap(type_filter), NilUuid)
    ELSE EdgeKeyNew(id, EmptyType, NilUuid)

\* OutboundRangeLoop whose time filters end the scan of a source vertex
\* (break) where the code skips the edge and goes on (continue).
RECURSIVE OutboundRangeLoop_BreakOnTime(_, _, _, _, _)
OutboundRangeLoop_BreakOnTime(self, q, id, keys, results) ==
    IF keys = <<>> THEN [results |-> results, returned |-> FALSE]
    ELSE LET key == Head(keys)
             update_datetime == self.edges[key]
         IN IF key.outbound_id # id
            THEN [results |-> results, returned |-> FALSE]
            ELSE IF IsSome(q.type_filter) /\ key.t # Unwrap(q.type_filter)
            THEN [results |-> results, returned |-> FALSE]
            ELSE IF IsSome(q.high_filter) /\ update_datetime > Unwrap(q.high_filter)
            THEN [results |-> results, returned |-> FALSE]
            ELSE IF IsSome(q.low_filter) /\ update_datetime < Unwrap(q.low_filter)
            THEN [results |-> results, returned |-> FALSE]
            ELSE LET pushed == Append(results, <<key, update_datetime>>)
                 IN IF Len(pushed) = q.limit
                    THEN [results |-> pushed, returned |-> TRUE]
                    ELSE OutboundRangeLoop_BreakOnTime(self, q, id, Tail(keys), pushed)

\* The inner loop of the outbound pipe over self.edges.range(lower_bound..):
\* keys is what is left of the range.  returned tells that the limit was
\* reached, which returns from the whole evaluation.
RECURSIVE OutboundRangeLoop(_, _, _, _, _)
OutboundRangeLoop(self, q, id, keys, results) ==
    IF keys = <<>> THEN [results |-> results, returned |-> FALSE]
    ELSE LET key == Head(keys)
             update_datetime == self.edges[key]
         IN IF key.outbound_id # id
            THEN [results |-> results, returned |-> FALSE]
            ELSE IF IsSome(q.type_filter) /\ key.t # Unwrap(q.type_filter)
            THEN [results |-> results, returned |-> FALSE]
            ELSE IF IsSome(q.high_filter) /\ update_datetime > Unwrap(q.high_filter)
            THEN OutboundRangeLoop(self, q, id, Tail(keys), results)
            ELSE IF IsSome(q.low_filter) /\ update_datetime < Unwrap(q.low_filter)
            THEN OutboundRangeLoop(self, q, id, Tail(keys), results)
            ELSE LET pushed == Append(results, <<key, update_datetime>>)
                 IN IF Len(pushed) = q.limit
                    THEN [results |-> pushed, returned |-> TRUE]
                    ELSE OutboundRangeLoop(self, q, id, Tail(keys), pushed)

\* The outbound pipe with results declared inside the loop over the source
\* vertices, which makes the limit one per source.
RECURSIVE OutboundPipe_PerSource(_, _, _, _)
OutboundPipe_PerSource(self, q, vertex_values, results) ==
    IF vertex_values = <<>> THEN results
    ELSE LET id == Head(vertex_values)[1]
             scan == OutboundRangeLoop(self, q, id,
                         RangeEdges(self.edges, LowerBound(id, q.type_filter)),
                         <<>>)
         IN OutboundPipe_PerSource(self, q, Tail(vertex_values),
                                   results \o scan.results)

\* The outer loop of the outbound pipe: for (id, _) in vertex_values.
RECURSIVE OutboundPipe(_, _, _, _)
OutboundPipe(self, q, vertex_values, results) ==
    IF vertex_values = <<>> THEN results
    ELSE LET id == Head(vertex_values)[1]
             scan == OutboundRangeLoop(self, q, id,
                         RangeEdges(self.edges, LowerBound(id, q.type_filter)),
                         results)
         IN IF scan.returned THEN scan.results
            ELSE OutboundPipe(self, q, Tail(vertex_values), scan.results)

\* InboundPipe that ends the scan at the first edge into another vertex, as
\* the outbound scan does at the first edge out of another vertex.
RECURSIVE InboundPipe_BreakOnMiss(_, _, _, _, _)
InboundPipe_BreakOnMiss(self, q, candidate_ids, keys, results) ==
    IF keys = <<>> THEN results
    ELSE LET key == Head(keys)
             update_datetime == self.edges[key]
         IN IF key.inbound_id \notin candidate_ids
            THEN results
            ELSE IF IsSome(q.type_filter) /\ key.t # Unwrap(q.type_filter)
            THEN InboundPipe_BreakOnMiss(self, q, candidate_ids, Tail(keys), results)
            ELSE IF IsSome(q.high_filter) /\ update_datetime > Unwrap(q.high_filter)
            THEN InboundPipe_BreakOnMiss(self, q, candidate_ids, Tail(keys), results)
            ELSE IF IsSome(q.low_filter) /\ update_datetime < Unwrap(q.low_filter)
            THEN InboundPipe_BreakOnMiss(self, q, candidate_ids, Tail(keys), results)
            ELSE LET pushed == Append(results, <<key, update_datetime>>)
                 IN IF Len(pushed) = q.limit
                    THEN pushed
                    ELSE InboundPipe_BreakOnMiss(self, q, candidate_ids, Tail(keys),
                                                 pushed)

\* The loop of the inbound pipe: for (key, update_datetime) in &self.edges.
RECURSIVE InboundPipe(_, _, _, _, _)
InboundPipe(self, q, candidate_ids, keys, results) ==
    IF keys = <<>> THEN results
    ELSE LET key == Head(keys)
             update_datetime == self.edges[key]
         IN IF key.inbound_id \notin candidate_ids
            THEN InboundPipe(self, q, candidate_ids, Tail(keys), results)
            ELSE IF IsSome(q.type_filter) /\ key.t # Unwrap(q.type_filter)
            THEN InboundPipe(self, q, candidate_ids, Tail(keys), results)
            ELSE IF IsSome(q.high_filter) /\ update_datetime > Unwrap(q.high_filter)
            THEN InboundPipe(self, q, candidate_ids, Tail(keys), results)
            ELSE IF IsSome(q.low_filter) /\ update_datetime < Unwrap(q.low_filter)
            THEN InboundPipe(self, q, candidate_ids, Tail(keys), results)
            ELSE LET pushed == Append(results, <<key, update_datetime>>)
                 IN IF Len(pushed) = q.limit
                    THEN pushed
                    ELSE InboundPipe(self, q, candidate_ids, Tail(keys), pushed)

\* .map(|(key, _)| key.outbound_id) and .map(|(key, _)| key.inbound_id)
Endpoints(edge_values, converter) ==
    [i \in 1..Len(edge_values) |->
        IF converter = Outbound THEN edge_values[i][1].outbound_id
        ELSE edge_values[i][1].inbound_id]

RECURSIVE get_vertex_values_by_query(_, _)
RECURSIVE get_edge_values_by_query(_, _)

get_vertex_values_by_query(self, q) ==
    CASE q.type = "all" ->
            LET start == IF IsSome(q.start_id)
                         THEN RangeIds(self.vertices, Unwrap(q.start_id))
                         ELSE IterIds(DOMAIN self.vertices)
                taken == Take(start, q.limit)
            IN [i \in 1..Len(taken) |-> <<taken[i], self.vertices[taken[i]]>>]
      [] q.type = "vertices" -> HydrateVertices(self, q.ids)
      [] q.type = "pipe" ->
            LET edge_values == get_edge_values_by_query(self, q.edge_query)
                ids == Endpoints(Take(edge_values, q.limit), q.converter)
            IN HydrateVertices(self, ids)

get_edge_values_by_query(self, q) ==
    CASE q.type = "edges" -> HydrateEdges(self, q.keys)
      [] q.type = "pipe" ->
            LET vertex_values == get_vertex_values_by_query(self, q.vertex_query)
            IN IF q.limit = 0 THEN <<>>
               ELSE IF q.converter = Outbound
               THEN OutboundPipe(self, q, vertex_values, <<>>)
               ELSE InboundPipe(self, q,
                        {vertex_values[i][1] : i \in 1..Len(vertex_values)},
                        IterEdgeKeys(DOMAIN self.edges), <<>>)

\* .map(|(k, _)| k)
Keys(values) == [i \in 1..Len(values) |-> values[i][1]]

\* DeletableVertexProperties without the break at the first key of another
\* vertex.
DeletableVertexProperties_NoBreak(vertex_id, keys) == keys

\* The property range scan of delete_vertices: every key from
\* (vertex_id, "") on, up to the first one of another vertex.
RECURSIVE DeletableVertexProperties(_, _)
DeletableVertexProperties(vertex_id, keys) ==
    IF keys = <<>> THEN <<>>
    ELSE IF Head(keys)[1] # vertex_id THEN <<>>
    ELSE <<Head(keys)>> \o DeletableVertexProperties(vertex_id, Tail(keys))

\* DeletableEdgeProperties that stops after the first property of the edge.
DeletableEdgeProperties_FirstOnly(edge_key, keys) ==
    IF keys = <<>> THEN <<>>
    ELSE IF Head(keys)[1] # edge_key THEN <<>>
    ELSE <<Head(keys)>>

\* The property range scan of delete_edges.
RECURSIVE DeletableEdgeProperties(_, _)
DeletableEdgeProperties(edge_key, keys) ==
    IF keys = <<>> THEN <<>>
    ELSE IF Head(keys)[1] # edge_key THEN <<>>
    ELSE <<Head(keys)>> \o DeletableEdgeProperties(edge_key, Tail(keys))

\* for property_key in deletable { map.remove(&property_key) }
RECURSIVE RemoveAll(_, _)
RemoveAll(m, keys) ==
    IF keys = <<>> THEN m ELSE RemoveAll(MapRemove(m, Head(keys)), Tail(keys))

\* DeletableEdges with the inbound test left out.
RECURSIVE DeletableEdges_OutboundOnly(_, _)
DeletableEdges_OutboundOnly(vertex_id, keys) ==
    IF keys = <<>> THEN <<>>
    ELSE (IF Head(keys).outbound_id = vertex_id THEN <<Head(keys)>> ELSE <<>>)
         \o DeletableEdges_OutboundOnly(vertex_id, Tail(keys))

\* for edge_key in self.edges.keys() { if outbound_id == v || inbound_id == v }
RECURSIVE DeletableEdges(_, _)
DeletableEdges(vertex_id, keys) ==
    IF keys = <<>> THEN <<>>
    ELSE (IF Head(keys).outbound_id = vertex_id \/ Head(keys).inbound_id = vertex_id
          THEN <<Head(keys)>> ELSE <<>>) \o DeletableEdges(vertex_id, Tail(keys))

RECURSIVE delete_edges(_, _)
delete_edges(self, edges) ==
    IF edges = <<>> THEN self
    ELSE LET edge_key == Head(edges)
             removed == MapRemove(self.edges, edge_key)
             deletable_edge_properties ==
                 DeletableEdgeProperties(edge_key,
                     RangeEdgeProperties(self.edge_properties, <<edge_key, EmptyName>>))
         IN delete_edges(
                [self EXCEPT !.edges = removed,
                             !.edge_properties = RemoveAll(@, deletable_edge_properties)],
                Tail(edges))

RECURSIVE delete_vertices(_, _)
delete_vertices(self, vertices) ==
    IF vertices = <<>> THEN self
    ELSE LET vertex_id == Head(vertices)
             removed == MapRemove(self.vertices, vertex_id)
             deletable_vertex_properties ==
                 DeletableVertexProperties(vertex_id,
                     RangeVertexProperties(self.vertex_properties, <<vertex_id, EmptyName>>))
             deletable_edges ==
                 DeletableEdges(vertex_id, IterEdgeKeys(DOMAIN self.edges))
         IN delete_vertices(
                delete_edges(
                    [self EXCEPT !.vertices = removed,
                                 !.vertex_properties = RemoveAll(@, deletable_vertex_properties)],
                    deletable_edges),
                Tail(vertices))

\* -------------------------------------------------------- MemoryTransaction
\* Each operation of the transaction, as a function of the datastore it
\* locks: self is the datastore after the call, ret what the call returns.
\* create_vertex with insert in place of entry().or_insert_with().
txn_create_vertex_Overwrite(self, vertex) ==
    [self |-> [self EXCEPT !.vertices = MapInsert(@, vertex.id, vertex.t)],
     ret |-> vertex.id \notin DOMAIN self.vertices]

\* create_vertex with inserted set outside the closure.
txn_create_vertex_AlwaysInserted(self, vertex) ==
    IF vertex.id \in DOMAIN self.vertices
    THEN [self |-> self, ret |-> TRUE]
    ELSE [self |-> [self EXCEPT !.vertices = MapInsert(@, vertex.id, vertex.t)],
          ret |-> TRUE]

txn_create_vertex(self, vertex) ==
    IF vertex.id \in DOMAIN self.vertices
    THEN [self |-> self, ret |-> FALSE]
    ELSE [self |-> [self EXCEPT !.vertices = MapInsert(@, vertex.id, vertex.t)],
          ret |-> TRUE]

\* txn_get_vertices that takes the vertices it returns out of the map.
txn_get_vertices_Draining(self, q) ==
    LET vertex_values == get_vertex_values_by_query(self, q)
    IN [self |-> [self EXCEPT !.vertices = RemoveAll(@, Keys(vertex_values))],
        ret |-> [i \in 1..Len(vertex_values) |->
                    VertexWithId(vertex_values[i][1], vertex_values[i][2])]]

txn_get_vertices(self, q) ==
    LET vertex_values == get_vertex_values_by_query(self, q)
    IN [self |-> self,
        ret |-> [i \in 1..Len(vertex_values) |->
                    VertexWithId(vertex_values[i][1], vertex_values[i][2])]]

txn_delete_vertices(self, q) ==
    LET deletable_vertices == Keys(get_vertex_values_by_query(self, q))
    IN [self |-> delete_vertices(self, deletable_vertices), ret |-> <<>>]

txn_get_vertex_count(self) ==
    [self |-> self, ret |-> Cardinality(DOMAIN self.vertices)]

\* create_edge that looks up the outbound vertex only.
txn_create_edge_OutboundOnly(self, key, utc_now) ==
    IF key.outbound_id \notin DOMAIN self.vertices
    THEN [self |-> self, ret |-> FALSE]
    ELSE [self |-> [self EXCEPT !.edges = MapInsert(@, key, utc_now)],
          ret |-> TRUE]

\* create_edge that inserts before it looks up the endpoints.
txn_create_edge_InsertFirst(self, key, utc_now) ==
    [self |-> [self EXCEPT !.edges = MapInsert(@, key, utc_now)],
     ret |-> key.outbound_id \in DOMAIN self.vertices
             /\ key.inbound_id \in DOMAIN self.vertices]

\* create_edge with entry().or_insert() in place of insert.
txn_create_edge_KeepFirst(self, key, utc_now) ==
    IF key.outbound_id \notin DOMAIN self.vertices
       \/ key.inbound_id \notin DOMAIN self.vertices
    THEN [self |-> self, ret |-> FALSE]
    ELSE [self |-> [self EXCEPT !.edges =
                        IF key \in DOMAIN @ THEN @ ELSE MapInsert(@, key, utc_now)],
          ret |-> TRUE]

\* utc_now is what Utc::now() returns during the call.
txn_create_edge(self, key, utc_now) ==
    IF key.outbound_id \notin DOMAIN self.vertices
       \/ key.inbound_id \notin DOMAIN self.vertices
    THEN [self |-> self, ret |-> FALSE]
    ELSE [self |-> [self EXCEPT !.edges = MapInsert(@, key, utc_now)],
          ret |-> TRUE]

txn_get_edges(self, q) ==
    LET edge_values == get_edge_values_by_query(self, q)
    IN [self |-> self,
        ret |-> [i \in 1..Len(edge_values) |->
                    EdgeNew(edge_values[i][1], edge_values[i][2])]]

\* delete_edges that removes the edges and leaves their properties behind.
txn_delete_edges_NoCascade(self, q) ==
    LET deletable_edges == Keys(get_edge_values_by_query(self, q))
    IN [self |-> [self EXCEPT !.edges = RemoveAll(@, deletable_edges)],
        ret |-> <<>>]

txn_delete_edges(self, q) ==
    LET deletable_edges == Keys(get_edge_values_by_query(self, q))
    IN [self |-> delete_edges(self, deletable_edges), ret |-> <<>>]

\* The take_while of the outbound branch without its test of the type.
RECURSIVE TakeWhileCount_NoType(_, _, _)
TakeWhileCount_NoType(id, type_filter, keys) ==
    IF keys = <<>> THEN 0
    ELSE IF Head(keys).outbound_id = id
         THEN 1 + TakeWhileCount_NoType(id, type_filter, Tail(keys))
         ELSE 0

\* range.take_while(..).count() of the outbound branch.
RECURSIVE TakeWhileCount(_, _, _)
TakeWhileCount(id, type_filter, keys) ==
    IF keys = <<>> THEN 0
    ELSE LET k == Head(keys)
             keep == IF IsSome(type_filter)
                     THEN k.outbound_id = id /\ k.t = Unwrap(type_filter)
                     ELSE k.outbound_id = id
         IN IF keep THEN 1 + TakeWhileCount(id, type_filter, Tail(keys)) ELSE 0

txn_get_edge_count(self, id, type_filter, direction) ==
    IF direction = Outbound
    THEN [self |-> self,
          ret |-> TakeWhileCount(id, type_filter,
                      RangeEdges(self.edges, LowerBound(id, type_filter)))]
    ELSE [self |-> self,
          ret |-> Cardinality({k \in DOMAIN self.edges :
                      IF IsSome(type_filter)
                      THEN k.inbound_id = id /\ k.t = Unwrap(type_filter)
                      ELSE k.inbound_id = id})]

\* GetVertexPropertiesLoop that pushes a null (0) for a vertex without the
\* property.
RECURSIVE GetVertexPropertiesLoop_NullPadded(_, _, _)
GetVertexPropertiesLoop_NullPadded(self, vertex_values, name) ==
    IF vertex_values = <<>> THEN <<>>
    ELSE LET id == Head(vertex_values)[1]
         IN (IF <<id, name>> \in DOMAIN self.vertex_properties
             THEN <<VertexPropertyNew(id, self.vertex_properties[<<id, name>>])>>
             ELSE <<VertexPropertyNew(id, 0)>>)
            \o GetVertexPropertiesLoop_NullPadded(self, Tail(vertex_values), name)

\* for (id, _) in vertex_values { if let Some(value) = get(&(id, name)) { push } }
RECURSIVE GetVertexPropertiesLoop(_, _, _)
GetVertexPropertiesLoop(self, vertex_values, name) ==
    IF vertex_values = <<>> THEN <<>>
    ELSE LET id == Head(vertex_values)[1]
         IN (IF <<id, name>> \in DOMAIN self.vertex_properties
             THEN <<VertexPropertyNew(id, self.vertex_properties[<<id, name>>])>>
             ELSE <<>>) \o GetVertexPropertiesLoop(self, Tail(vertex_values), name)

txn_get_vertex_properties(self, q, name) ==
    [self |-> self,
     ret |-> GetVertexPropertiesLoop(self, get_vertex_values_by_query(self, q), name)]

\* SetPropertiesLoop with entry().or_insert() in place of insert: a value
\* already stored stays.
RECURSIVE SetPropertiesLoop_KeepExisting(_, _, _, _)
SetPropertiesLoop_KeepExisting(properties, owners, name, value) ==
    IF owners = <<>> THEN properties
    ELSE SetPropertiesLoop_KeepExisting(
             IF <<Head(owners), name>> \in DOMAIN properties THEN properties
             ELSE MapInsert(properties, <<Head(owners), name>>, value),
             Tail(owners), name, value)

\* for (owner, _) in values { properties.insert((owner, name), value) }
RECURSIVE SetPropertiesLoop(_, _, _, _)
SetPropertiesLoop(properties, owners, name, value) ==
    IF owners = <<>> THEN properties
    ELSE SetPropertiesLoop(MapInsert(properties, <<Head(owners), name>>, value),
                           Tail(owners), name, value)

txn_set_vertex_properties(self, q, name, value) ==
    LET vertex_values == get_vertex_values_by_query(self, q)
    IN [self |-> [self EXCEPT !.vertex_properties =
                      SetPropertiesLoop(@, Keys(vertex_values), name, value)],
        ret |-> <<>>]

\* DeletePropertiesLoop that removes the properties of every name.
DeletePropertiesLoop_EveryName(properties, owners, name) ==
    LET kept == {pk \in DOMAIN properties :
                    \A i \in 1..Len(owners) : pk[1] # owners[i]}
    IN [pk \in kept |-> properties[pk]]

RECURSIVE DeletePropertiesLoop(_, _, _)
DeletePropertiesLoop(properties, owners, name) ==
    IF owners = <<>> THEN properties
    ELSE DeletePropertiesLoop(MapRemove(properties, <<Head(owners), name>>),
                              Tail(owners), name)

txn_delete_vertex_properties(self, q, name) ==
    LET vertex_values == get_vertex_values_by_query(self, q)
    IN [self |-> [self EXCEPT !.vertex_properties =
                      DeletePropertiesLoop(@, Keys(vertex_values), name)],
        ret |-> <<>>]

RECURSIVE GetEdgePropertiesLoop(_, _, _)
GetEdgePropertiesLoop(self, edge_values, name) ==
    IF edge_values = <<>> THEN <<>>
    ELSE LET key == Head(edge_values)[1]
         IN (IF <<key, name>> \in DOMAIN self.edge_properties
             THEN <<EdgePropertyNew(key, self.edge_properties[<<key, name>>])>>
             ELSE <<>>) \o GetEdgePropertiesLoop(self, Tail(edge_values), name)

txn_get_edge_properties(self, q, name) ==
    [self |-> self,
     ret |-> GetEdgePropertiesLoop(self, get_edge_values_by_query(self, q), name)]

txn_set_edge_properties(self, q, name, value) ==
    LET edge_values == get_edge_values_by_query(self, q)
    IN [self |-> [self EXCEPT !.edge_properties =
                      SetPropertiesLoop(@, Keys(edge_values), name, value)],
        ret |-> <<>>]

txn_delete_edge_properties(self, q, name) ==
    LET edge_values == get_edge_values_by_query(self, q)
    IN [self |-> [self EXCEPT !.edge_properties =
                      DeletePropertiesLoop(@, Keys(edge_values), name)],
        ret |-> <<>>]

\* ---------------------------------------------------- the lock and threads
\* The threads that share the datastore, each through its own
\* MemoryTransaction on the same Arc<RwLock<InternalMemoryDatastore>>.
Threads == 1..MaxThreads

\* RwLock::new: nobody holds the lock and nobody waits for it.  The queue
\* holds the threads blocked in read() or write(), in the order they came.
RwLockNew == [readers |-> {}, writers |-> {}, queue |-> <<>>]

\* RwLock::read() returns whenever no writer holds the lock, whoever reads.
CanRead_IgnoresWriter(l) == TRUE

\* RwLock::read() returns once no writer holds the lock.
CanRead(l) == l.writers = {}

\* RwLock::write() returns whenever no writer holds the lock, readers or not.
CanWrite_IgnoresReaders(l) == l.writers = {}

\* RwLock::write() returns once nobody holds the lock.
CanWrite(l) == l.writers = {} /\ l.readers = {}

\* The mode in which each operation of MemoryTransaction takes the lock:
\* self.datastore.read() or self.datastore.write().
LockMode(op) ==
    CASE op = "create_vertex" -> "write"
      [] op = "get_vertices" -> "read"
      [] op = "delete_vertices" -> "write"
      [] op = "get_vertex_count" -> "read"
      [] op = "create_edge" -> "write"
      [] op = "get_edges" -> "read"
      [] op = "delete_edges" -> "write"
      [] op = "get_edge_count" -> "read"
      [] op = "get_vertex_properties" -> "read"
      [] op = "set_vertex_properties" -> "write"
      [] op = "delete_vertex_properties" -> "write"
      [] op = "get_edge_properties" -> "read"
      [] op = "set_edge_properties" -> "write"
      [] op = "delete_edge_properties" -> "write"

\* A call of a transaction: the operation and its arguments.
TxnCall(op, args) == [op |-> op, args |-> args]

\* What the call returns and the datastore it leaves, run alone on self;
\* utc_now is what Utc::now() returns to a create_edge.
Apply(self, call, utc_now) ==
    LET a == call.args
    IN CASE call.op = "create_vertex" -> txn_create_vertex(self, a[1])
         [] call.op = "get_vertices" -> txn_get_vertices(self, a[1])
         [] call.op = "delete_vertices" -> txn_delete_vertices(self, a[1])
         [] call.op = "get_vertex_count" -> txn_get_vertex_count(self)
         [] call.op = "create_edge" -> txn_create_edge(self, a[1], utc_now)
         [] call.op = "get_edges" -> txn_get_edges(self, a[1])
         [] call.op = "delete_edges" -> txn_delete_edges(self, a[1])
         [] call.op = "get_edge_count" -> txn_get_edge_count(self, a[1], a[2], a[3])
         [] call.op = "get_vertex_properties" -> txn_get_vertex_properties(self, a[1], a[2])
         [] call.op = "set_vertex_properties" ->
                txn_set_vertex_properties(self, a[1], a[2], a[3])
         [] call.op = "delete_vertex_properties" ->
                txn_delete_vertex_properties(self, a[1], a[2])
         [] call.op = "get_edge_properties" -> txn_get_edge_properties(self, a[1], a[2])
         [] call.op = "set_edge_properties" ->
                txn_set_edge_properties(self, a[1], a[2], a[3])
         [] call.op = "delete_edge_properties" ->
                txn_delete_edge_properties(self, a[1], a[2])

\* One write to one map: BTreeMap::insert(key, value), or BTreeMap::remove(key)
\* when value is None.
MapWrite(map, key, value) == [map |-> map, key |-> key, value |-> value]

Write(self, w) ==
    LET put(m) == IF IsSome(w.value) THEN MapInsert(m, w.key, Unwrap(w.value))
                  ELSE MapRemove(m, w.key)
    IN CASE w.map = "vertices" -> [self EXCEPT !.vertices = put(@)]
         [] w.map = "edges" -> [self EXCEPT !.edges = put(@)]
         [] w.map = "vertex_properties" -> [self EXCEPT !.vertex_properties = put(@)]
         [] w.map = "edge_properties" -> [self EXCEPT !.edge_properties = put(@)]

Removals(map, keys) == [i \in 1..Len(keys) |-> MapWrite(map, keys[i], None)]

Inserts(map, owners, name, value) ==
    [i \in 1..Len(owners) |-> MapWrite(map, <<owners[i], name>>, Some(value))]

\* The writes of InternalMemoryDatastore::delete_edges, in the order the
\* loop makes them: the edge, then each of its properties.
RECURSIVE delete_edges_writes(_, _)
delete_edges_writes(self, edges) ==
    IF edges = <<>> THEN <<>>
    ELSE LET edge_key == Head(edges)
             deletable_edge_properties ==
                 DeletableEdgeProperties(edge_key,
                     RangeEdgeProperties(self.edge_properties, <<edge_key, EmptyName>>))
         IN <<MapWrite("edges", edge_key, None)>>
            \o Removals("edge_properties", deletable_edge_properties)
            \o delete_edges_writes(delete_edges(self, <<edge_key>>), Tail(edges))

\* The writes of InternalMemoryDatastore::delete_vertices: the vertex, each
\* of its properties, then the writes of delete_edges on its edges.
RECURSIVE delete_vertices_writes(_, _)
delete_vertices_writes(self, vertices) ==
    IF vertices = <<>> THEN <<>>
    ELSE LET vertex_id == Head(vertices)
             deletable_vertex_properties ==
                 DeletableVertexProperties(vertex_id,
                     RangeVertexProperties(self.vertex_properties, <<vertex_id, EmptyName>>))
             deletable_edges ==
                 DeletableEdges(vertex_id, IterEdgeKeys(DOMAIN self.edges))
         IN <<MapWrite("vertices", vertex_id, None)>>
            \o Removals("vertex_properties", deletable_vertex_properties)
            \o delete_edges_writes(self, deletable_edges)
            \o delete_vertices_writes(delete_vertices(self, <<vertex_id>>), Tail(vertices))

\* The writes the body of a modifying operation makes to the maps behind the
\* guard it holds, one by one, in order.
Writes(self, call, utc_now) ==
    LET a == call.args
    IN CASE call.op = "create_vertex" ->
                IF a[1].id \in DOMAIN self.vertices THEN <<>>
                ELSE <<MapWrite("vertices", a[1].id, Some(a[1].t))>>
         [] call.op = "create_edge" ->
                IF a[1].outbound_id \notin DOMAIN self.vertices
                   \/ a[1].inbound_id \notin DOMAIN self.vertices
                THEN <<>>
                ELSE <<MapWrite("edges", a[1], Some(utc_now))>>
         [] call.op = "delete_vertices" ->
                delete_vertices_writes(self, Keys(get_vertex_values_by_query(self, a[1])))
         [] call.op = "delete_edges" ->
                delete_edges_writes(self, Keys(get_edge_values_by_query(self, a[1])))
         [] call.op = "set_vertex_properties" ->
                Inserts("vertex_properties",
                        Keys(get_vertex_values_by_query(self, a[1])), a[2], a[3])
         [] call.op = "delete_vertex_properties" ->
                Removals("vertex_properties",
                    LET owners == Keys(get_vertex_values_by_query(self, a[1]))
                    IN [i \in 1..Len(owners) |-> <<owners[i], a[2]>>])
         [] call.op = "set_edge_properties" ->
                Inserts("edge_properties",
                        Keys(get_edge_values_by_query(self, a[1])), a[2], a[3])
         [] call.op = "delete_edge_properties" ->
                Removals("edge_properties",
                    LET owners == Keys(get_edge_values_by_query(self, a[1]))
                    IN [i \in 1..Len(owners) |-> <<owners[i], a[2]>>])
         [] OTHER -> <<>>

\* ---------------------------------------------------------------- the codec
\* common/converters.rs: from_* fills the builder of a message from a native
\* value, to_* reads a native value from the reader of a message.  A message
\* is the record of its fields; a field that the builder never sets reads
\* as its default: an empty slice, an empty text, 0.

\* Result<T, CapnpError>
Ok(x) == [ok |-> TRUE, value |-> x]

Failed == [ok |-> FALSE]

\* .collect::<Result<Vec<_>, CapnpError>>()
Collect(results) ==
    IF \E i \in 1..Len(results) : ~results[i].ok THEN Failed
    ELSE Ok([i \in 1..Len(results) |-> results[i].value])

\* Uuid::as_bytes: the 16 bytes of the id, the most significant first.
UuidAsBytes(id) == [i \in 1..UuidLen |-> IF i = UuidLen THEN id ELSE 0]

UuidFromSlice_Unchecked(bytes) ==
    Ok(IF bytes = <<>> THEN NilUuid ELSE bytes[Len(bytes)])

\* map_capnp_err(Uuid::from_slice(bytes)): fails on a slice of another length.
UuidFromSlice(bytes) ==
    IF Len(bytes) = UuidLen THEN Ok(bytes[UuidLen]) ELSE Failed

\* map_capnp_err(indradb::Type::new(text)): the model layer refuses a text
\* that is no type name; the empty text is none.
TypeNew(text) == IF text = EmptyType THEN Failed ELSE Ok(text)

\* JsonValue::to_string and serde_json::from_str: the text of a value is the
\* one token that spells it, and a text of any other shape is malformed.
JsonToString(value) == <<value>>

JsonFromStr(text) == IF Len(text) = 1 THEN Ok(text[1]) ELSE Failed

\* DateTime<Utc>: whole seconds since the epoch and the nanoseconds past them.
DateTimeNew(secs, nanos) == [secs |-> secs, nanos |-> nanos]

\* DateTime::timestamp_nanos; DateTime::timestamp is the field secs, and
\* Utc.timestamp(secs, nanos) is DateTimeNew(secs, nanos).
TimestampNanos(datetime) == datetime.secs * NANOS_PER_SEC + datetime.nanos

from_vertex(vertex) == [id |-> UuidAsBytes(vertex.id), type |-> vertex.t]

to_vertex(reader) ==
    LET id == UuidFromSlice(reader.id)
        t == TypeNew(reader.type)
    IN IF ~id.ok \/ ~t.ok THEN Failed
       ELSE Ok(VertexWithId(id.value, t.value))

from_edge_key(key) ==
    [outbound_id |-> UuidAsBytes(key.outbound_id), type |-> key.t,
     inbound_id |-> UuidAsBytes(key.inbound_id)]

to_edge_key(reader) ==
    LET outbound_id == UuidFromSlice(reader.outbound_id)
        t == TypeNew(reader.type)
        inbound_id == UuidFromSlice(reader.inbound_id)
    IN IF ~outbound_id.ok \/ ~t.ok \/ ~inbound_id.ok THEN Failed
       ELSE Ok(EdgeKeyNew(outbound_id.value, t.value, inbound_id.value))

from_edge(edge) ==
    [created_datetime |-> edge.created_datetime.secs,
     key |-> from_edge_key(edge.key)]

to_edge(reader) ==
    LET key == to_edge_key(reader.key)
        created_datetime == DateTimeNew(reader.created_datetime, 0)
    IN IF ~key.ok THEN Failed
       ELSE Ok(EdgeNew(key.value, created_datetime))

from_vertex_property(property) ==
    [id |-> UuidAsBytes(property.id), value |-> JsonToString(property.value)]

to_vertex_property(reader) ==
    LET id == UuidFromSlice(reader.id)
        value == JsonFromStr(reader.value)
    IN IF ~id.ok \/ ~value.ok THEN Failed
       ELSE Ok(VertexPropertyNew(id.value, value.value))

from_edge_property(property) ==
    [value |-> JsonToString(property.value), key |-> from_edge_key(property.key)]

to_edge_property(reader) ==
    LET key == to_edge_key(reader.key)
        value == JsonFromStr(reader.value)
    IN IF ~key.ok \/ ~value.ok THEN Failed
       ELSE Ok(EdgePropertyNew(key.value, value.value))

\* The directions of the schema are the values of autogen::EdgeDirection.
from_edge_direction(direction) ==
    CASE direction = Outbound -> "autogen::EdgeDirection::Outbound"
      [] direction = Inbound -> "autogen::EdgeDirection::Inbound"

to_edge_direction_Swapped(direction) ==
    CASE direction = "autogen::EdgeDirection::Outbound" -> Inbound
      [] direction = "autogen::EdgeDirection::Inbound" -> Outbound

to_edge_direction(direction) ==
    CASE direction = "autogen::EdgeDirection::Outbound" -> Outbound
      [] direction = "autogen::EdgeDirection::Inbound" -> Inbound

to_optional_datetime_NoSentinel(timestamp) ==
    Some(DateTimeNew(timestamp \div NANOS_PER_SEC, timestamp % NANOS_PER_SEC))

to_optional_datetime(timestamp) ==
    IF timestamp = 0 THEN None
    ELSE LET secs == timestamp \div NANOS_PER_SEC
             nanos == timestamp % NANOS_PER_SEC
         IN Some(DateTimeNew(secs, nanos))

RECURSIVE from_vertex_query(_)
RECURSIVE from_edge_query(_)

from_vertex_query(q) ==
    CASE q.type = "all" ->
            [which |-> "all",
             start_id |-> IF IsSome(q.start_id) THEN UuidAsBytes(Unwrap(q.start_id))
                          ELSE <<>>,
             limit |-> q.limit]
      [] q.type = "vertices" ->
            [which |-> "vertices",
             ids |-> [i \in 1..Len(q.ids) |-> UuidAsBytes(q.ids[i])]]
      [] q.type = "pipe" ->
            [which |-> "pipe",
             converter |-> from_edge_direction(q.converter),
             limit |-> q.limit,
             edge_query |-> from_edge_query(q.edge_query)]

from_edge_query(q) ==
    CASE q.type = "edges" ->
            [which |-> "edges",
             keys |-> [i \in 1..Len(q.keys) |-> from_edge_key(q.keys[i])]]
      [] q.type = "pipe" ->
            [which |-> "pipe",
             converter |-> from_edge_direction(q.converter),
             type_filter |-> IF IsSome(q.type_filter) THEN Unwrap(q.type_filter)
                             ELSE EmptyType,
             high_filter |-> IF IsSome(q.high_filter)
                             THEN TimestampNanos(Unwrap(q.high_filter)) ELSE 0,
             low_filter |-> IF IsSome(q.low_filter)
                            THEN TimestampNanos(Unwrap(q.low_filter)) ELSE 0,
             limit |-> q.limit,
             vertex_query |-> from_vertex_query(q.vertex_query)]

RECURSIVE to_vertex_query(_)
RECURSIVE to_edge_query(_)

to_vertex_query(reader) ==
    CASE reader.which = "all" ->
            LET start_id_bytes == reader.start_id
                start_id == UuidFromSlice(start_id_bytes)
            IN IF start_id_bytes = <<>>
               THEN Ok(VertexQueryAll(None, reader.limit))
               ELSE IF ~start_id.ok THEN Failed
               ELSE Ok(VertexQueryAll(Some(start_id.value), reader.limit))
      [] reader.which = "vertices" ->
            LET ids == Collect([i \in 1..Len(reader.ids) |-> UuidFromSlice(reader.ids[i])])
            IN IF ~ids.ok THEN Failed ELSE Ok(VertexQueryVertices(ids.value))
      [] reader.which = "pipe" ->
            LET edge_query == to_edge_query(reader.edge_query)
            IN IF ~edge_query.ok THEN Failed
               ELSE Ok(VertexQueryPipe(edge_query.value,
                                       to_edge_direction(reader.converter),
                                       reader.limit))

to_edge_query(reader) ==
    CASE reader.which = "edges" ->
            LET keys == Collect([i \in 1..Len(reader.keys) |-> to_edge_key(reader.keys[i])])
            IN IF ~keys.ok THEN Failed ELSE Ok(EdgeQueryEdges(keys.value))
      [] reader.which = "pipe" ->
            LET vertex_query == to_vertex_query(reader.vertex_query)
                type_filter == IF reader.type_filter = EmptyType THEN Ok(None)
                               ELSE LET t == TypeNew(reader.type_filter)
                                    IN IF t.ok THEN Ok(Some(t.value)) ELSE Failed
            IN IF ~vertex_query.ok \/ ~type_filter.ok THEN Failed
               ELSE Ok(EdgeQueryPipe(vertex_query.value,
                                     to_edge_direction(reader.converter),
                                     type_filter.value,
                                     to_optional_datetime(reader.high_filter),
                                     to_optional_datetime(reader.low_filter),
                                     reader.limit))

\* An indradb::BulkInsertItem is the record of its variant (item) and of
\* the fields of the variant.
from_bulk_insert_items(items) ==
    [i \in 1..Len(items) |->
        LET item == items[i]
        IN CASE item.item = "Vertex" ->
                    [which |-> "vertex", vertex |-> from_vertex(item.vertex)]
             [] item.item = "Edge" ->
                    [which |-> "edge", key |-> from_edge_key(item.key)]
             [] item.item = "VertexProperty" ->
                    [which |-> "vertex_property", id |-> UuidAsBytes(item.id),
                     name |-> item.name, value |-> JsonToString(item.value)]
             [] item.item = "EdgeProperty" ->
                    [which |-> "edge_property", name |-> item.name,
                     value |-> JsonToString(item.value),
                     key |-> from_edge_key(item.key)]]

to_bulk_insert_items(reader) ==
    Collect([i \in 1..Len(reader) |->
        LET item == reader[i]
        IN CASE item.which = "vertex" ->
                    LET vertex == to_vertex(item.vertex)
                    IN IF ~vertex.ok THEN Failed
                       ELSE Ok([item |-> "Vertex", vertex |-> vertex.value])
             [] item.which = "edge" ->
                    LET edge_key == to_edge_key(item.key)
                    IN IF ~edge_key.ok THEN Failed
                       ELSE Ok([item |-> "Edge", key |-> edge_key.value])
             [] item.which = "vertex_property" ->
                    LET id == UuidFromSlice(item.id)
                        value == JsonFromStr(item.value)
                    IN IF ~id.ok \/ ~value.ok THEN Failed
                       ELSE Ok([item |-> "VertexProperty", id |-> id.value,
                                name |-> item.name, value |-> value.value])
             [] item.which = "edge_property" ->
                    LET key == to_edge_key(item.key)
                        value == JsonFromStr(item.value)
                    IN IF ~key.ok \/ ~value.ok THEN Failed
                       ELSE Ok([item |-> "EdgeProperty", key |-> key.value,
                                name |-> item.name, value |-> value.value])])

\* models/queries.rs: impl From<EdgeDirection> for String
StringFrom(d) ==
    CASE d = Outbound -> "outbound"
      [] d = Inbound -> "inbound"

from_str_IgnoreCase(s) ==
    CASE s \in {"outbound", "Outbound"} -> Ok(Outbound)
      [] s \in {"inbound", "INBOUND"} -> Ok(Inbound)
      [] OTHER -> [ok |-> FALSE, error |-> "ValidationError: invalid value"]

\* models/queries.rs: impl FromStr for EdgeDirection; the error is an
\* errors::ValidationError, not an error of the codec.
from_str(s) ==
    CASE s = "outbound" -> Ok(Outbound)
      [] s = "inbound" -> Ok(Inbound)
      [] OTHER -> [ok |-> FALSE, error |-> "ValidationError: invalid value"]

\* The kinds of value that are converted, the message from_* builds of a
\* value of each kind and what to_* reads from a message of it.  The message
\* of an EdgeDirection is its string.
Kinds ==
    {"Vertex", "Edge", "EdgeKey", "VertexProperty", "EdgeProperty", "VertexQuery",
     "EdgeQuery", "BulkInsertItem", "EdgeDirection"}

Encoded(kind, native) ==
    CASE kind = "Vertex" -> from_vertex(native)
      [] kind = "Edge" -> from_edge(native)
      [] kind = "EdgeKey" -> from_edge_key(native)
      [] kind = "VertexProperty" -> from_vertex_property(native)
      [] kind = "EdgeProperty" -> from_edge_property(native)
      [] kind = "VertexQuery" -> from_vertex_query(native)
      [] kind = "EdgeQuery" -> from_edge_query(native)
      [] kind = "BulkInsertItem" -> from_bulk_insert_items(native)
      [] kind = "EdgeDirection" -> StringFrom(native)

Decoded(kind, reader) ==
    CASE kind = "Vertex" -> to_vertex(reader)
      [] kind = "Edge" -> to_edge(reader)
      [] kind = "EdgeKey" -> to_edge_key(reader)
      [] kind = "VertexProperty" -> to_vertex_property(reader)
      [] kind = "EdgeProperty" -> to_edge_property(reader)
      [] kind = "VertexQuery" -> to_vertex_query(reader)
      [] kind = "EdgeQuery" -> to_edge_query(reader)
      [] kind = "BulkInsertItem" -> to_bulk_insert_items(reader)
      [] kind = "EdgeDirection" -> from_str(reader)

\* ------------------------------------------------------------ the datastore
VARIABLES
    edge_properties,    \* BTreeMap<(EdgeKey, String), JsonValue>
    edges,              \* BTreeMap<EdgeKey, DateTime<Utc>>
    vertex_properties,  \* BTreeMap<(Uuid, String), JsonValue>
    vertices,           \* BTreeMap<Uuid, Type>
    now,                \* the latest reading of the clock, Utc::now()
    lock,               \* the RwLock: the threads that hold it in each mode
    threads,            \* what each thread is doing with its transaction
    codec,              \* the value the codec converts and its message
    last                \* the latest call: its name, its arguments, the
                        \* datastore it found (pre) and what it returned

vars == <<edge_properties, edges, vertex_properties, vertices, now, lock, threads,
          codec, last>>

\* The datastore behind the lock, as the operations see it.
Datastore == InternalMemoryDatastore(edge_properties, edges, vertex_properties, vertices)

\* The number of entries the four maps hold together.
Entries(self) ==
    Cardinality(DOMAIN self.vertices) + Cardinality(DOMAIN self.edges)
    + Cardinality(DOMAIN self.vertex_properties)
    + Cardinality(DOMAIN self.edge_properties)

\* ------------------------------------------------------- inputs of the calls
SeqsUpTo(S, n) == UNION {[1..k -> S] : k \in 0..n}

Vertexes == {VertexWithId(id, t) : id \in Ids, t \in Types}

IdLists == SeqsUpTo(Ids, MaxListLen)

KeyLists == SeqsUpTo(EdgeKeys, MaxListLen)

EdgePipes(VQ, C, TF, HF, LF, L) ==
    {EdgeQueryPipe(vq, c, tf, hf, lf, l) :
        vq \in VQ, c \in C, tf \in TF, hf \in HF, lf \in LF, l \in L}

VertexPipes(EQ, C, L) ==
    {VertexQueryPipe(eq, c, l) : eq \in EQ, c \in C, l \in L}

\* Every vertex, and every edge that leaves a vertex.
AllVertices == VertexQueryAll(None, U32Max)

AllEdges == outbound_edges(AllVertices, None, None, None, U32Max)

\* The queries that do not pipe.
BaseVertexQueries ==
    {VertexQueryAll(start_id, limit) : start_id \in Option(Ids), limit \in Limits}
    \cup {VertexQueryVertices(ids) : ids \in IdLists}

BaseEdgeQueries == {EdgeQueryEdges(keys) : keys \in KeyLists}

\* The queries the calls are issued with: base queries, pipes and a pipe
\* over a pipe, with and without each filter, with limits that cut and
\* limits that do not.
CallVertexQueries ==
    {AllVertices, VertexQueryAll(Some(MaxId), 1), VertexQueryAll(None, 0)}
    \cup {VertexQueryVertices(ids) :
            ids \in {<<NilUuid>>, <<MaxId>>, <<MaxId, NilUuid>>, <<MaxId, MaxId>>}}
    \cup {inbound_vertices(AllEdges, 1), outbound_vertices(AllEdges, U32Max)}

CallEdgeQueries ==
    {EdgeQueryEdges(<<k>>) : k \in {e \in EdgeKeys : e.outbound_id = MaxId}}
    \cup {AllEdges,
          outbound_edges(VertexQueryVertices(<<MaxId, NilUuid>>), None, None, None, 1),
          outbound_edges(AllVertices, Some(1), None, None, U32Max),
          outbound_edges(AllVertices, None, Some(1), None, U32Max),
          outbound_edges(AllVertices, None, None, Some(MaxClock), U32Max),
          outbound_edges(inbound_vertices(AllEdges, U32Max), None, None, None, 1),
          inbound_edges(AllVertices, Some(MaxType), None, None, U32Max),
          inbound_edges(VertexQueryVertices(<<MaxId, MaxId>>), None, None, None, U32Max),
          inbound_edges(AllVertices, None, None, None, 1),
          inbound_edges(AllVertices, None, Some(1), Some(1), U32Max),
          inbound_edges(AllVertices, None, None, None, 0)}

\* The queries the property calls are issued with.
PropertyVertexQueries ==
    {AllVertices, VertexQueryAll(None, 1), VertexQueryVertices(<<MaxId>>)}

PropertyEdgeQueries ==
    {AllEdges, inbound_edges(AllVertices, None, None, None, 1),
     EdgeQueryEdges(<<EdgeKeyNew(MaxId, 1, NilUuid)>>)}

\* ------------------------------------------------------ the threads' calls
\* No message is being converted.
CodecIdle == [stage |-> "idle", kind |-> "", native |-> <<>>, wire |-> <<>>,
              decoded |-> <<>>, again |-> <<>>]

\* A thread that is not in a call; ret is None until the call has its result.
Idle == [pc |-> "idle", call |-> TxnCall("", <<>>), utc_now |-> 0,
         snapshot |-> <<>>, writes |-> <<>>, ret |-> <<>>]

\* The calls the threads make.
WriteCalls ==
    {TxnCall("create_vertex", <<VertexWithId(id, 1)>>) : id \in Ids}
    \cup {TxnCall("create_edge", <<EdgeKeyNew(MaxId, 1, NilUuid)>>),
          TxnCall("delete_vertices", <<VertexQueryVertices(<<NilUuid>>)>>),
          TxnCall("delete_vertices", <<AllVertices>>),
          TxnCall("delete_edges", <<AllEdges>>),
          TxnCall("set_vertex_properties", <<AllVertices, EmptyName, 1>>),
          TxnCall("delete_vertex_properties", <<AllVertices, EmptyName>>),
          TxnCall("set_edge_properties", <<AllEdges, EmptyName, 1>>),
          TxnCall("delete_edge_properties", <<AllEdges, EmptyName>>)}

ReadCalls ==
    {TxnCall("get_vertices", <<AllVertices>>),
     TxnCall("get_vertex_count", <<>>),
     TxnCall("get_edges", <<AllEdges>>),
     TxnCall("get_edge_count", <<MaxId, None, Outbound>>),
     TxnCall("get_vertex_properties", <<AllVertices, EmptyName>>),
     TxnCall("get_edge_properties", <<AllEdges, EmptyName>>)}

\* ------------------------------------------------------------------ actions
\* MemoryDatastore::default()
Init ==
    /\ edge_properties = EmptyMap
    /\ edges = EmptyMap
    /\ vertex_properties = EmptyMap
    /\ vertices = EmptyMap
    /\ now = 1
    /\ lock = RwLockNew
    /\ threads = [t \in Threads |-> Idle]
    /\ codec = CodecIdle
    /\ last = [op |-> "default", args |-> <<>>, ret |-> <<>>,
               pre |-> InternalMemoryDatastore(EmptyMap, EmptyMap, EmptyMap, EmptyMap)]

\* Datastore::transaction(): a caller takes a handle on the datastore; each
\* call below is made on a handle just taken.
Transaction ==
    /\ last.op # "transaction"
    /\ last' = [op |-> "transaction", args |-> <<>>, ret |-> <<>>, pre |-> Datastore]
    /\ UNCHANGED <<edge_properties, edges, vertex_properties, vertices, now>>
    /\ UNCHANGED <<lock, threads, codec>>

\* A call is made on a handle just taken.
OnHandle == last.op = "transaction"

\* The call op(args) ran on the datastore and produced out.
Call(op, args, out) ==
    /\ edge_properties' = out.self.edge_properties
    /\ edges' = out.self.edges
    /\ vertex_properties' = out.self.vertex_properties
    /\ vertices' = out.self.vertices
    /\ last' = [op |-> op, args |-> args, ret |-> out.ret, pre |-> Datastore]
    /\ UNCHANGED <<lock, threads, codec>>

CreateVertex ==
    /\ OnHandle
    /\ \E vertex \in Vertexes :
        LET out == txn_create_vertex(Datastore, vertex)
        IN /\ Entries(out.self) <= MaxEntries
           /\ Call("create_vertex", <<vertex>>, out)
           /\ UNCHANGED now

GetVertices ==
    /\ OnHandle
    /\ \E q \in CallVertexQueries :
        /\ Call("get_vertices", <<q>>, txn_get_vertices(Datastore, q))
        /\ UNCHANGED now

DeleteVertices ==
    /\ OnHandle
    /\ \E q \in CallVertexQueries :
        /\ Call("delete_vertices", <<q>>, txn_delete_vertices(Datastore, q))
        /\ UNCHANGED now

GetVertexCount ==
    /\ OnHandle
    /\ Call("get_vertex_count", <<>>, txn_get_vertex_count(Datastore))
    /\ UNCHANGED now

\* The clock never runs backwards: the call reads a time not before the
\* latest one read.
CreateEdge ==
    /\ OnHandle
    /\ \E key \in EdgeKeys, utc_now \in now..MaxClock :
        LET out == txn_create_edge(Datastore, key, utc_now)
        IN /\ Entries(out.self) <= MaxEntries
           /\ Call("create_edge", <<key>>, out)
           /\ now' = utc_now

GetEdges ==
    /\ OnHandle
    /\ \E q \in CallEdgeQueries :
        /\ Call("get_edges", <<q>>, txn_get_edges(Datastore, q))
        /\ UNCHANGED now

DeleteEdges ==
    /\ OnHandle
    /\ \E q \in CallEdgeQueries :
        /\ Call("delete_edges", <<q>>, txn_delete_edges(Datastore, q))
        /\ UNCHANGED now

GetEdgeCount ==
    /\ OnHandle
    /\ \E id \in Ids, type_filter \in Option(Types \cup {EmptyType}),
       direction \in EdgeDirection :
        /\ Call("get_edge_count", <<id, type_filter, direction>>,
                txn_get_edge_count(Datastore, id, type_filter, direction))
        /\ UNCHANGED now

GetVertexProperties ==
    /\ OnHandle
    /\ \E q \in PropertyVertexQueries, name \in Names :
        /\ Call("get_vertex_properties", <<q, name>>,
                txn_get_vertex_properties(Datastore, q, name))
        /\ UNCHANGED now

SetVertexProperties ==
    /\ OnHandle
    /\ \E q \in PropertyVertexQueries, name \in Names, value \in JsonValues :
        LET out == txn_set_vertex_properties(Datastore, q, name, value)
        IN /\ Entries(out.self) <= MaxEntries
           /\ Call("set_vertex_properties", <<q, name, value>>, out)
           /\ UNCHANGED now

DeleteVertexProperties ==
    /\ OnHandle
    /\ \E q \in PropertyVertexQueries, name \in Names :
        /\ Call("delete_vertex_properties", <<q, name>>,
                txn_delete_vertex_properties(Datastore, q, name))
        /\ UNCHANGED now

GetEdgeProperties ==
    /\ OnHandle
    /\ \E q \in PropertyEdgeQueries, name \in Names :
        /\ Call("get_edge_properties", <<q, name>>,
                txn_get_edge_properties(Datastore, q, name))
        /\ UNCHANGED now

SetEdgeProperties ==
    /\ OnHandle
    /\ \E q \in PropertyEdgeQueries, name \in Names, value \in JsonValues :
        LET out == txn_set_edge_properties(Datastore, q, name, value)
        IN /\ Entries(out.self) <= MaxEntries
           /\ Call("set_edge_properties", <<q, name, value>>, out)
           /\ UNCHANGED now

DeleteEdgeProperties ==
    /\ OnHandle
    /\ \E q \in PropertyEdgeQueries, name \in Names :
        /\ Call("delete_edge_properties", <<q, name>>,
                txn_delete_edge_properties(Datastore, q, name))
        /\ UNCHANGED now

Next ==
    \/ Transaction
    \/ CreateVertex
    \/ GetVertices
    \/ DeleteVertices
    \/ GetVertexCount
    \/ CreateEdge
    \/ GetEdges
    \/ DeleteEdges
    \/ GetEdgeCount
    \/ GetVertexProperties
    \/ SetVertexProperties
    \/ DeleteVertexProperties
    \/ GetEdgeProperties
    \/ SetEdgeProperties
    \/ DeleteEdgeProperties

Spec == Init /\ [][Next]_vars

\* -------------------------------------------------- concurrent transactions
\* Each thread calls operations of its transaction one after another; a call
\* takes the lock in the mode of its operation, runs its body behind the
\* guard and drops the guard when it returns.

\* The thread enters a call and asks for the lock.
Begin(t) ==
    /\ threads[t].pc = "idle"
    /\ \E call \in WriteCalls \cup ReadCalls :
           threads' = [threads EXCEPT ![t] = [Idle EXCEPT !.pc = "waiting", !.call = call]]
    /\ lock' = [lock EXCEPT !.queue = Append(@, t)]
    /\ UNCHANGED <<edge_properties, edges, vertex_properties, vertices, now, codec, last>>

\* self.datastore.read().unwrap() returns the read guard.
AcquireRead(t) ==
    /\ threads[t].pc = "waiting"
    /\ LockMode(threads[t].call.op) = "read"
    /\ CanRead(lock)
    /\ lock' = [lock EXCEPT !.readers = @ \cup {t},
                            !.queue = SelectSeq(@, LAMBDA x : x # t)]
    /\ threads' = [threads EXCEPT ![t].pc = "locked"]
    /\ UNCHANGED <<edge_properties, edges, vertex_properties, vertices, now, codec, last>>

\* The body of a get_* operation: it reads the maps behind the read guard.
Evaluate(t) ==
    /\ threads[t].pc = "locked"
    /\ t \in lock.readers
    /\ threads' = [threads EXCEPT ![t].pc = "evaluated",
                                  ![t].ret = Some(Apply(Datastore, threads[t].call, now).ret)]
    /\ UNCHANGED <<edge_properties, edges, vertex_properties, vertices, now, lock, codec, last>>

\* self.datastore.write().unwrap() returns the write guard, and the body
\* evaluates its query and settles what it will write; a create_edge reads
\* the clock.
AcquireWrite(t) ==
    /\ threads[t].pc = "waiting"
    /\ LockMode(threads[t].call.op) = "write"
    /\ CanWrite(lock)
    /\ \E utc_now \in IF threads[t].call.op = "create_edge" THEN now..MaxClock ELSE {now} :
        LET out == Apply(Datastore, threads[t].call, utc_now)
        IN /\ now' = utc_now
           /\ threads' = [threads EXCEPT ![t] =
                  [pc |-> "locked", call |-> threads[t].call, utc_now |-> utc_now,
                   snapshot |-> Datastore,
                   writes |-> Writes(Datastore, threads[t].call, utc_now),
                   ret |-> Some(out.ret)]]
    /\ lock' = [lock EXCEPT !.writers = @ \cup {t},
                            !.queue = SelectSeq(@, LAMBDA x : x # t)]
    /\ UNCHANGED <<edge_properties, edges, vertex_properties, vertices, codec, last>>

\* The body of a modifying operation makes its next write to a map.
Mutate(t) ==
    /\ threads[t].pc = "locked"
    /\ t \in lock.writers
    /\ threads[t].writes # <<>>
    /\ LET self == Write(Datastore, Head(threads[t].writes))
       IN /\ edge_properties' = self.edge_properties
          /\ edges' = self.edges
          /\ vertex_properties' = self.vertex_properties
          /\ vertices' = self.vertices
    /\ threads' = [threads EXCEPT ![t].writes = Tail(@)]
    /\ UNCHANGED <<now, lock, codec, last>>

\* Release on a return path that keeps the guard alive.
Release_KeepsGuard(t) ==
    /\ \/ threads[t].pc = "evaluated"
       \/ threads[t].pc = "locked" /\ t \in lock.writers /\ threads[t].writes = <<>>
    /\ threads' = [threads EXCEPT ![t] = Idle]
    /\ UNCHANGED <<edge_properties, edges, vertex_properties, vertices, now, lock, codec,
                   last>>

\* The operation returns and its guard is dropped.
Release(t) ==
    /\ \/ threads[t].pc = "evaluated"
       \/ threads[t].pc = "locked" /\ t \in lock.writers /\ threads[t].writes = <<>>
    /\ lock' = [lock EXCEPT !.readers = @ \ {t}, !.writers = @ \ {t}]
    /\ threads' = [threads EXCEPT ![t] = Idle]
    /\ UNCHANGED <<edge_properties, edges, vertex_properties, vertices, now, codec, last>>

ConcurrentNext ==
    \E t \in Threads :
        \/ Begin(t)
        \/ AcquireRead(t)
        \/ Evaluate(t)
        \/ AcquireWrite(t)
        \/ Mutate(t)
        \/ Release(t)

ConcurrentSpec == Init /\ [][ConcurrentNext]_vars

\* A fair lock: it serves the requests in the order they were made, so none
\* is overtaken for ever.  std::sync::RwLock leaves the order to the
\* operating system; this is the lock of the threads when it is fair.
FairLock(t) == lock.queue # <<>> /\ Head(lock.queue) = t

FairConcurrentNext ==
    \E t \in Threads :
        \/ Begin(t)
        \/ FairLock(t) /\ AcquireRead(t)
        \/ Evaluate(t)
        \/ FairLock(t) /\ AcquireWrite(t)
        \/ Mutate(t)
        \/ Release(t)

\* Where each thread is in its call: every step of a call changes it.
Position ==
    [t \in Threads |-> <<threads[t].pc, Len(threads[t].writes)>>]

\* Evaluate(t) and AcquireWrite(t) can be taken, and a step is one of them.
CanEvaluate(t) == threads[t].pc = "locked" /\ t \in lock.readers

CanAcquireWrite(t) ==
    /\ threads[t].pc = "waiting"
    /\ LockMode(threads[t].call.op) = "write"
    /\ FairLock(t)
    /\ CanWrite(lock)

\* Every thread that can take a step of its call takes it in the end; no
\* thread has to begin a call.  The weak fairness of Evaluate(t) and of
\* AcquireWrite(t) is written out, []<>~ENABLED <<A>>_v \/ []<><<A>>_v, with
\* the guards of the actions for ENABLED and the change of pc for the step.
FairConcurrentSpec ==
    /\ Init
    /\ [][FairConcurrentNext]_vars
    /\ \A t \in Threads :
           /\ WF_Position(FairLock(t) /\ AcquireRead(t))
           /\ WF_Position(Mutate(t))
           /\ WF_Position(Release(t))
           /\ \/ []<>~CanEvaluate(t)
              \/ []<><<CanEvaluate(t) /\ threads'[t].pc = "evaluated">>_Position
           /\ \/ []<>~CanAcquireWrite(t)
              \/ []<><<CanAcquireWrite(t) /\ threads'[t].pc = "locked">>_Position

\* ---------------------------------------------------------- the wire codec
\* The values the codec is given: instants with and without a sub-second
\* part (the last nanosecond of a second among them), every Some/None
\* combination of the filters of an edge pipe, pipes nested in pipes, lists
\* of bulk insert items of every variant.
DateTimes ==
    {DateTimeNew(secs, nanos) : secs \in 0..MaxSecs, nanos \in 0..MaxNanos}
    \cup {DateTimeNew(secs, NANOS_PER_SEC - 1) : secs \in 0..1}

WireVertexQueries ==
    BaseVertexQueries
    \cup VertexPipes(BaseEdgeQueries
                     \cup EdgePipes({AllVertices}, EdgeDirection, Option(Types),
                                    {None, Some(DateTimeNew(MaxSecs, MaxNanos))},
                                    {None, Some(DateTimeNew(0, MaxNanos))}, {U32Max}),
                     EdgeDirection, {0, U32Max})

WireEdgeQueries ==
    BaseEdgeQueries
    \cup EdgePipes({AllVertices, VertexQueryVertices(<<MaxId>>)}, EdgeDirection,
                   Option(Types), Option(DateTimes), Option(DateTimes), {1, U32Max})
    \cup EdgePipes(VertexPipes({AllEdges}, EdgeDirection, {1}), EdgeDirection,
                   {None}, {None}, {None}, {U32Max})

BulkInsertItems ==
    {[item |-> "Vertex", vertex |-> vertex] : vertex \in Vertexes}
    \cup {[item |-> "Edge", key |-> EdgeKeyNew(MaxId, t, NilUuid)] : t \in Types}
    \cup {[item |-> "VertexProperty", id |-> MaxId, name |-> name, value |-> value] :
            name \in Names, value \in JsonValues}
    \cup {[item |-> "EdgeProperty", key |-> EdgeKeyNew(NilUuid, 1, MaxId),
           name |-> name, value |-> value] : name \in Names, value \in JsonValues}

WireValues(kind) ==
    CASE kind = "Vertex" -> Vertexes
      [] kind = "Edge" ->
            {EdgeNew(key, datetime) : key \in EdgeKeys, datetime \in DateTimes}
      [] kind = "EdgeKey" -> EdgeKeys
      [] kind = "VertexProperty" ->
            {VertexPropertyNew(id, value) : id \in Ids, value \in JsonValues}
      [] kind = "EdgeProperty" ->
            {EdgePropertyNew(key, value) : key \in EdgeKeys, value \in JsonValues}
      [] kind = "VertexQuery" -> WireVertexQueries
      [] kind = "EdgeQuery" -> WireEdgeQueries
      [] kind = "BulkInsertItem" -> SeqsUpTo(BulkInsertItems, MaxItems)
      [] kind = "EdgeDirection" -> EdgeDirection

\* The messages a peer can send: what the builders above produce and, beside
\* it, identifier slices of every length class (empty, too short, 16 bytes,
\* too long), texts that are no type or no JSON value, timestamps that no
\* filter of the inputs above encodes to, strings that name no direction.
Slices ==
    {[i \in 1..n |-> 0] : n \in {0, 1, UuidLen - 1, MaxSliceLen}}
    \cup {UuidAsBytes(id) : id \in Ids}

WireTimestamps ==
    {secs * NANOS_PER_SEC + nanos : secs \in 0..MaxSecs, nanos \in 0..MaxNanos}
    \cup {NANOS_PER_SEC - 1, 2 * NANOS_PER_SEC - 1, U32Max}

DirectionStrings ==
    {"outbound", "inbound", "", "Outbound", "INBOUND", "outbound ", "in", "foo"}

Messages(kind) ==
    LET texts == {EmptyType} \cup Types
        jsons == {<<>>, <<1>>, <<1, 1>>}
        keys == {[outbound_id |-> outbound_id, type |-> t, inbound_id |-> inbound_id] :
                    outbound_id \in Slices, t \in texts, inbound_id \in Slices}
        somekeys == {key \in keys : key.type = 1 /\ key.outbound_id = UuidAsBytes(MaxId)}
        alls == {[which |-> "all", start_id |-> start_id, limit |-> limit] :
                    start_id \in Slices, limit \in {0, U32Max}}
        lists == {[which |-> "vertices", ids |-> ids] : ids \in SeqsUpTo(Slices, 2)}
        edgelists == {[which |-> "edges", keys |-> ks] : ks \in SeqsUpTo(somekeys, 1)}
        edgepipes == {[which |-> "pipe",
                       converter |-> from_edge_direction(converter),
                       type_filter |-> type_filter, high_filter |-> high_filter,
                       low_filter |-> low_filter, limit |-> 1,
                       vertex_query |-> vertex_query] :
                        converter \in EdgeDirection, type_filter \in {EmptyType, MaxType},
                        high_filter \in WireTimestamps, low_filter \in WireTimestamps,
                        vertex_query \in {a \in alls : /\ a.limit = U32Max
                                                       /\ Len(a.start_id) < UuidLen}}
        vertexpipes == {[which |-> "pipe",
                         converter |-> from_edge_direction(converter), limit |-> 1,
                         edge_query |-> edge_query] :
                          converter \in EdgeDirection, edge_query \in edgelists}
        items == {[which |-> "vertex", vertex |-> [id |-> id, type |-> 1]] : id \in Slices}
                 \cup {[which |-> "edge", key |-> key] : key \in somekeys}
                 \cup {[which |-> "vertex_property", id |-> id, name |-> EmptyName,
                        value |-> <<1>>] : id \in Slices}
                 \cup {[which |-> "edge_property", name |-> EmptyName, value |-> <<1>>,
                        key |-> key] : key \in somekeys}
    IN CASE kind = "Vertex" -> {[id |-> id, type |-> t] : id \in Slices, t \in texts}
         [] kind = "Edge" ->
                {[created_datetime |-> secs, key |-> key] :
                    secs \in 0..MaxSecs, key \in somekeys}
         [] kind = "EdgeKey" -> keys
         [] kind = "VertexProperty" ->
                {[id |-> id, value |-> value] : id \in Slices, value \in jsons}
         [] kind = "EdgeProperty" ->
                {[value |-> value, key |-> key] : value \in jsons, key \in somekeys}
         [] kind = "VertexQuery" -> alls \cup lists \cup vertexpipes
         [] kind = "EdgeQuery" -> edgelists \cup edgepipes
         [] kind = "BulkInsertItem" -> SeqsUpTo(items, 1)
         [] kind = "EdgeDirection" -> DirectionStrings

\* from_*: a value of some kind is given and its message is built.  The
\* converters keep nothing between two calls, so each conversion is followed
\* from a codec with no builder or reader in use.
From ==
    /\ codec.stage = "idle"
    /\ \E kind \in Kinds :
           \E native \in WireValues(kind) :
               codec' = [stage |-> "encoded", kind |-> kind, native |-> native,
                         wire |-> Encoded(kind, native), decoded |-> <<>>,
                         again |-> <<>>]
    /\ UNCHANGED <<edge_properties, edges, vertex_properties, vertices, now, lock,
                   threads, last>>

\* to_*: the message built is read back.
To ==
    /\ codec.stage = "encoded"
    /\ codec' = [codec EXCEPT !.stage = "decoded",
                              !.decoded = Decoded(codec.kind, codec.wire)]
    /\ UNCHANGED <<edge_properties, edges, vertex_properties, vertices, now, lock,
                   threads, last>>

\* to_* on a message that a peer built: the message is read as it arrives.
Receive ==
    /\ codec.stage = "idle"
    /\ \E kind \in Kinds :
           \E message \in Messages(kind) :
               codec' = [stage |-> "read", kind |-> kind, native |-> <<>>,
                         wire |-> message, decoded |-> Decoded(kind, message),
                         again |-> <<>>]
    /\ UNCHANGED <<edge_properties, edges, vertex_properties, vertices, now, lock,
                   threads, last>>

\* from_* on the value that to_* returned: a value read is sent on.
Reencode ==
    /\ codec.stage \in {"decoded", "read"}
    /\ codec.decoded.ok
    /\ codec' = [codec EXCEPT !.stage = IF codec.stage = "decoded" THEN "reencoded"
                                       ELSE "forwarded",
                              !.again = Encoded(codec.kind, codec.decoded.value)]
    /\ UNCHANGED <<edge_properties, edges, vertex_properties, vertices, now, lock,
                   threads, last>>

CodecNext ==
    \/ From
    \/ To
    \/ Receive
    \/ Reencode

CodecSpec == Init /\ [][CodecNext]_vars

\* ================================================================== claims
\* The part of a map whose keys satisfy a test is written with Restrict.
Restrict(m, S) == [x \in S |-> m[x]]

\* The ids a vertex query returns, and the keys an edge query returns.
VertexIdsOf(self, q) ==
    LET r == get_vertex_values_by_query(self, q) IN {r[i][1] : i \in 1..Len(r)}

EdgeKeysOf(self, q) ==
    LET r == get_edge_values_by_query(self, q) IN {r[i][1] : i \in 1..Len(r)}

\* The four maps are as the latest call found them.
MapsUnchanged ==
    /\ vertices = last.pre.vertices
    /\ edges = last.pre.edges
    /\ vertex_properties = last.pre.vertex_properties
    /\ edge_properties = last.pre.edge_properties

\* C1: in every reachable state each key of the edge map has its
\* outbound_id and its inbound_id in the vertex map: no orphan edges.
C1_NoOrphanEdges ==
    \A key \in DOMAIN edges :
        key.outbound_id \in DOMAIN vertices /\ key.inbound_id \in DOMAIN vertices

\* A delete_vertices that removed a vertex with an incident edge and left
\* another edge in place.
C1_Witness ==
    /\ last.op = "delete_vertices"
    /\ \E key \in DOMAIN last.pre.edges :
           key.inbound_id \notin DOMAIN vertices /\ key.outbound_id \in DOMAIN vertices
    /\ DOMAIN edges # {}

\* C2: in every reachable state each (id, name) of vertex_properties has id
\* in the vertex map and each (key, name) of edge_properties has key in
\* the edge map: no orphan properties.
C2_NoOrphanProperties ==
    /\ \A pk \in DOMAIN vertex_properties : pk[1] \in DOMAIN vertices
    /\ \A pk \in DOMAIN edge_properties : pk[1] \in DOMAIN edges

\* A delete_edges that removed an edge carrying properties under two names.
C2_Witness ==
    /\ last.op = "delete_edges"
    /\ \E key \in DOMAIN last.pre.edges :
           /\ key \notin DOMAIN edges
           /\ \A name \in {EmptyName, MaxName} :
                  <<key, name>> \in DOMAIN last.pre.edge_properties

\* C3: delete_vertices(q) removes the vertices q returns on the state
\* before the call, their vertex properties, the edges with one of them as
\* an endpoint and the properties of those edges; every other entry of the
\* four maps stays as it was.
C3_DeleteVerticesExact ==
    last.op = "delete_vertices" =>
        LET pre == last.pre
            gone == VertexIdsOf(pre, last.args[1])
            kept_edges == {key \in DOMAIN pre.edges :
                              key.outbound_id \notin gone /\ key.inbound_id \notin gone}
        IN /\ vertices = Restrict(pre.vertices, DOMAIN pre.vertices \ gone)
           /\ vertex_properties =
                  Restrict(pre.vertex_properties,
                           {pk \in DOMAIN pre.vertex_properties : pk[1] \notin gone})
           /\ edges = Restrict(pre.edges, kept_edges)
           /\ edge_properties =
                  Restrict(pre.edge_properties,
                           {pk \in DOMAIN pre.edge_properties : pk[1] \in kept_edges})

\* A delete_vertices that removed a vertex with a property and a self-loop
\* while a property of another vertex, with a larger id, stayed.
C3_Witness ==
    /\ last.op = "delete_vertices"
    /\ \E id \in DOMAIN last.pre.vertices \ DOMAIN vertices :
           /\ \E pk \in DOMAIN last.pre.vertex_properties : pk[1] = id
           /\ EdgeKeyNew(id, 1, id) \in DOMAIN last.pre.edges
           /\ \E pk \in DOMAIN vertex_properties : pk[1] > id

\* C4 as stated: after create_vertex(v), whatever it returns,
\* get_vertices(Vertices{[v.id]}) is exactly the vertex (v.id, v.t).
C4_Original ==
    last.op = "create_vertex" =>
        LET v == last.args[1]
        IN txn_get_vertices(Datastore, VertexQueryVertices(<<v.id>>)).ret
               = <<VertexWithId(v.id, v.t)>>

\* C4 amended: after create_vertex(v), get_vertices(Vertices{[v.id]}) is
\* exactly one vertex with id v.id; its type is v.t when the call returned
\* true and the type stored before the call when it returned false.
C4_CreateVertexThenGet ==
    last.op = "create_vertex" =>
        LET v == last.args[1]
            got == txn_get_vertices(Datastore, VertexQueryVertices(<<v.id>>)).ret
        IN /\ Len(got) = 1
           /\ got[1].id = v.id
           /\ got[1].t = IF last.ret THEN v.t ELSE last.pre.vertices[v.id]

\* A create_vertex on an id stored under another type.
C4_Witness ==
    /\ last.op = "create_vertex"
    /\ last.args[1].id \in DOMAIN last.pre.vertices
    /\ last.pre.vertices[last.args[1].id] # last.args[1].t

\* C5: create_vertex returns true exactly when the id was absent, and on an
\* id that is present it leaves the stored type and all four maps as they
\* were, also when the type supplied differs.
C5_CreateVertexIdempotent ==
    last.op = "create_vertex" =>
        LET v == last.args[1]
        IN /\ last.ret = (v.id \notin DOMAIN last.pre.vertices)
           /\ v.id \in DOMAIN last.pre.vertices => MapsUnchanged

\* A create_vertex with another type on an id that has an edge and a property.
C5_Witness ==
    /\ last.op = "create_vertex"
    /\ last.ret = FALSE
    /\ vertices[last.args[1].id] # last.args[1].t
    /\ \E key \in DOMAIN edges : key.outbound_id = last.args[1].id
    /\ \E pk \in DOMAIN vertex_properties : pk[1] = last.args[1].id

\* C6: create_edge(k) returns false exactly when k.outbound_id or
\* k.inbound_id is not in the vertex map at the time of the call; so it
\* returns true for a key already stored and for a self-loop.
C6_CreateEdgeResult ==
    last.op = "create_edge" =>
        LET key == last.args[1]
        IN (last.ret = FALSE) <=>
               (key.outbound_id \notin DOMAIN last.pre.vertices
                \/ key.inbound_id \notin DOMAIN last.pre.vertices)

\* A create_edge whose outbound vertex exists while its inbound vertex does
\* not.
C6_Witness ==
    /\ last.op = "create_edge"
    /\ last.ret = FALSE
    /\ last.args[1].outbound_id \in DOMAIN last.pre.vertices
    /\ last.args[1].inbound_id \notin DOMAIN last.pre.vertices

\* C7: a create_edge that returns false changes none of the four maps.
C7_CreateEdgeFalseNoOp ==
    (last.op = "create_edge" /\ last.ret = FALSE) => MapsUnchanged

\* A create_edge refused on a datastore that holds vertices, edges and
\* properties.
C7_Witness ==
    /\ last.op = "create_edge"
    /\ last.ret = FALSE
    /\ DOMAIN edges # {}
    /\ DOMAIN vertex_properties # {}
    /\ DOMAIN edge_properties # {}

\* C8: create_edge(k) on a key already stored, with both endpoints present,
\* keeps the keys of the edge map, sets the created_datetime of k to the
\* time of this call, which is not before the one it replaces, and leaves
\* the vertices, the other edges and every property as they were.
C8_CreateEdgeRefreshes ==
    (last.op = "create_edge" /\ last.args[1] \in DOMAIN last.pre.edges) =>
        LET key == last.args[1]
        IN /\ last.ret = TRUE
           /\ DOMAIN edges = DOMAIN last.pre.edges
           /\ edges[key] = now
           /\ edges[key] >= last.pre.edges[key]
           /\ \A other \in DOMAIN edges \ {key} : edges[other] = last.pre.edges[other]
           /\ vertices = last.pre.vertices
           /\ vertex_properties = last.pre.vertex_properties
           /\ edge_properties = last.pre.edge_properties

\* A create_edge that moved the created_datetime of a stored edge with a
\* property forward, next to another edge.
C8_Witness ==
    /\ last.op = "create_edge"
    /\ last.args[1] \in DOMAIN last.pre.edges
    /\ last.pre.edges[last.args[1]] < edges[last.args[1]]
    /\ \E pk \in DOMAIN edge_properties : pk[1] = last.args[1]
    /\ Cardinality(DOMAIN edges) >= 2

\* C9: for every vertex v, type t and direction, in every reachable state
\* get_edge_count(v, Some(t), direction) returns the number of edges
\* get_edges returns there for the pipe over Vertices{[v]} with that
\* direction, type_filter Some(t), no time filter and limit u32::MAX.
C9_EdgeCountMatchesPipe ==
    (last.op = "get_edge_count" /\ IsSome(last.args[2])) =>
        last.ret = Len(txn_get_edges(Datastore,
                           EdgeQueryPipe(VertexQueryVertices(<<last.args[1]>>),
                                         last.args[3], last.args[2],
                                         None, None, U32Max)).ret)

\* A get_edge_count by the smallest type on a vertex that has outbound
\* edges of that type and of a larger one.
C9_Witness ==
    /\ last.op = "get_edge_count"
    /\ last.args[2] = Some(1)
    /\ last.args[3] = Outbound
    /\ last.ret >= 1
    /\ \E key \in DOMAIN edges : key.outbound_id = last.args[1] /\ key.t > 1

\* The queries C10 ranges over: every All, and pipes to depth three whose
\* limits and filters vary at each level.
LimitEdgePipes ==
    EdgePipes({AllVertices} \cup {VertexQueryVertices(ids) : ids \in IdLists},
              EdgeDirection, Option(Types), {None, Some(1)}, {None, Some(MaxClock)},
              Limits)

LimitVertexPipes ==
    VertexPipes(BaseEdgeQueries
                \cup EdgePipes({AllVertices}, EdgeDirection, {None}, {None}, {None}, Limits),
                EdgeDirection, Limits)

LimitDeepEdgePipes ==
    EdgePipes(VertexPipes({AllEdges}, EdgeDirection, Limits),
              EdgeDirection, {None}, {None}, {None}, Limits)

LimitVertexQueries ==
    {VertexQueryAll(start_id, limit) : start_id \in Option(Ids), limit \in Limits}
    \cup LimitVertexPipes

LimitEdgeQueries == LimitEdgePipes \cup LimitDeepEdgePipes

\* C10: in every state the result of a query that carries a limit n
\* (VertexQuery::All, VertexQuery::Pipe, EdgeQuery::Pipe, nested or not) has
\* at most n entries, and none when n = 0; the n of an edge pipe bounds the
\* edges of all its source vertices together.  Every datastore the calls
\* produce is met on the handle taken next, where the queries are evaluated.
C10_LimitHonoured ==
    OnHandle =>
        /\ \A q \in LimitVertexQueries :
               Len(get_vertex_values_by_query(Datastore, q)) <= q.limit
        /\ \A q \in LimitEdgeQueries :
               Len(get_edge_values_by_query(Datastore, q)) <= q.limit

\* A get_edges on an outbound pipe with limit 1 over two source vertices
\* that both have an outbound edge.
C10_Witness ==
    /\ last.op = "get_edges"
    /\ last.args[1] = outbound_edges(VertexQueryVertices(<<MaxId, NilUuid>>),
                                     None, None, None, 1)
    /\ Len(last.ret) = 1
    /\ \E key \in DOMAIN edges : key.outbound_id = MaxId
    /\ \E key \in DOMAIN edges : key.outbound_id = NilUuid

\* The full-scan reference of the outbound pipe: an edge matches a source id
\* when it leaves it, has the type of type_filter if one is set, and was
\* created not after high_filter and not before low_filter, where set.
MatchesOutbound(self, q, id, key) ==
    /\ key.outbound_id = id
    /\ IsSome(q.type_filter) => key.t = Unwrap(q.type_filter)
    /\ IsSome(q.high_filter) => self.edges[key] <= Unwrap(q.high_filter)
    /\ IsSome(q.low_filter) => self.edges[key] >= Unwrap(q.low_filter)

\* Every edge of the map is looked at for every source, in the order of the
\* sources and, within a source, of the keys.
RECURSIVE OutboundReference(_, _, _)
OutboundReference(self, q, sources) ==
    IF sources = <<>> THEN <<>>
    ELSE LET id == Head(sources)
             matching == SelectSeq(IterEdgeKeys(DOMAIN self.edges),
                                   LAMBDA key : MatchesOutbound(self, q, id, key))
         IN [i \in 1..Len(matching) |-> <<matching[i], self.edges[matching[i]]>>]
            \o OutboundReference(self, q, Tail(sources))

\* The outbound pipes C11 ranges over: every list of source ids and every
\* vertex, each combination of the three filters (a high_filter of MaxClock
\* and a low_filter of 1 exclude nothing, as None does), a limit that the
\* matches can reach and one they cannot.
ReferenceLimits == {1, U32Max}

ReferencePipes ==
    EdgePipes({AllVertices} \cup {VertexQueryVertices(ids) : ids \in IdLists},
              {Outbound}, Option(Types), {None, Some(1)}, {None, Some(MaxClock)},
              ReferenceLimits)

\* The outbound pipe q agrees with the full scan on the datastore self.
AgreesWithReference(self, q, result) ==
    LET sources == Keys(get_vertex_values_by_query(self, q.vertex_query))
        reference == OutboundReference(self, q, sources)
    IN Len(reference) <= q.limit =>
           /\ result = reference
           /\ {result[i] : i \in 1..Len(result)} =
                  {<<key, self.edges[key]>> : key \in
                      {k \in DOMAIN self.edges :
                          \E i \in 1..Len(sources) :
                              MatchesOutbound(self, q, sources[i], k)}}

\* C11: the range-scanned outbound pipe equals the full scan: when the limit
\* is not below the number of matches, the result is exactly the edges that
\* leave a source id, have the type of type_filter when one is set, and
\* whose created_datetime d has low_filter <= d <= high_filter (inclusive,
\* each optional); the breaks on another outbound_id or type skip no match.
C11_OutboundPipeIsFullScan ==
    /\ OnHandle =>
           \A q \in ReferencePipes :
               AgreesWithReference(Datastore, q, get_edge_values_by_query(Datastore, q))
    /\ (last.op = "get_edges" /\ last.args[1].type = "pipe"
        /\ last.args[1].converter = Outbound) =>
           AgreesWithReference(last.pre, last.args[1],
               [i \in 1..Len(last.ret) |->
                   <<last.ret[i].key, last.ret[i].created_datetime>>])

\* A get_edges on the outbound pipe with a high_filter that returned an edge
\* lying, in key order, after an edge of the same source that the filter
\* excludes.
C11_Witness ==
    /\ last.op = "get_edges"
    /\ last.args[1] = outbound_edges(AllVertices, None, Some(1), None, U32Max)
    /\ \E i \in 1..Len(last.ret) :
           \E key \in DOMAIN edges :
               /\ key.outbound_id = last.ret[i].key.outbound_id
               /\ EdgeKeyLt(key, last.ret[i].key)
               /\ edges[key] > 1

\* C12: delete_edges(q) removes the edges q returns on the state before the
\* call and every edge property keyed by one of them; the vertices, the
\* vertex properties, the other edges and their properties stay as they
\* were.
C12_DeleteEdgesExact ==
    last.op = "delete_edges" =>
        LET pre == last.pre
            gone == EdgeKeysOf(pre, last.args[1])
        IN /\ edges = Restrict(pre.edges, DOMAIN pre.edges \ gone)
           /\ edge_properties =
                  Restrict(pre.edge_properties,
                           {pk \in DOMAIN pre.edge_properties : pk[1] \notin gone})
           /\ vertices = pre.vertices
           /\ vertex_properties = pre.vertex_properties

\* A delete_edges that removed an edge with a property and left another
\* edge with a property.
C12_Witness ==
    /\ last.op = "delete_edges"
    /\ \E pk \in DOMAIN last.pre.edge_properties : pk[1] \notin DOMAIN edges
    /\ DOMAIN edge_properties # {}

\* C13: the type of a vertex never changes while the vertex is stored: every
\* call leaves the type of each vertex it keeps as it found it, and no call
\* but delete_vertices removes a vertex; so the type stored under an id can
\* differ between two states only across a delete_vertices of that id.
C13_VertexTypeImmutable ==
    /\ \A id \in DOMAIN last.pre.vertices \cap DOMAIN vertices :
           vertices[id] = last.pre.vertices[id]
    /\ last.op # "delete_vertices" => DOMAIN last.pre.vertices \subseteq DOMAIN vertices

\* A create_vertex with another type on a stored id, next to a vertex of
\* that other type.
C13_Witness ==
    /\ last.op = "create_vertex"
    /\ last.args[1].id \in DOMAIN last.pre.vertices
    /\ vertices[last.args[1].id] # last.args[1].t
    /\ \E id \in DOMAIN vertices : vertices[id] = last.args[1].t

\* The datastore as the operations completed so far left it: what a writer
\* found when it took the lock, while one holds it.
Committed ==
    IF lock.writers # {}
    THEN threads[CHOOSE t \in lock.writers : TRUE].snapshot
    ELSE Datastore

\* No edge without its endpoints and no property without its owner.
NoOrphans == C1_NoOrphanEdges /\ C2_NoOrphanProperties

\* C14: every operation is atomic with respect to concurrent transactions:
\* under every interleaving of the threads, what a get_* operation returns
\* is what it returns run alone on the datastore the completed operations
\* left, a modifying operation that is about to return has made of the
\* datastore it found what it makes of it run alone, and while a reader
\* holds the lock the datastore is in no intermediate state of a cascade (no
\* edge or property whose vertex is already removed).
C14_OperationsAtomic ==
    /\ \A t \in Threads :
           threads[t].pc = "evaluated" =>
               threads[t].ret = Some(Apply(Committed, threads[t].call, now).ret)
    /\ \A t \in lock.writers :
           threads[t].writes = <<>> =>
               LET out == Apply(threads[t].snapshot, threads[t].call, threads[t].utc_now)
               IN Datastore = out.self /\ threads[t].ret = Some(out.ret)
    /\ lock.readers # {} => Datastore = Committed /\ NoOrphans

\* A delete_vertices in the middle of its cascade, the vertex removed and an
\* edge to it still stored, while another thread waits to run get_edges.
C14_Witness ==
    /\ \E w \in lock.writers :
           /\ threads[w].call.op = "delete_vertices"
           /\ threads[w].writes # <<>>
    /\ ~C1_NoOrphanEdges
    /\ \E r \in Threads :
           threads[r].pc = "waiting" /\ threads[r].call.op = "get_edges"

\* C15: one reader-writer lock guards the four maps: a thread in the body of
\* a create_*, delete_* or set_*_properties holds it in write mode, from the
\* evaluation of its query to its last write, a thread in the body of a
\* get_* holds it in read mode, the maps differ from what the completed
\* operations left only while a writer holds the lock, and a writer never
\* holds it together with a reader or another writer.
C15_ReadersWriterLock ==
    /\ \A t \in Threads :
           threads[t].pc \in {"locked", "evaluated"} =>
               IF threads[t].call.op \in
                      {"get_vertices", "get_vertex_count", "get_edges", "get_edge_count",
                       "get_vertex_properties", "get_edge_properties"}
               THEN t \in lock.readers /\ t \notin lock.writers
               ELSE t \in lock.writers /\ t \notin lock.readers
    /\ \A t \in Threads :
           threads[t].pc \in {"idle", "waiting"} =>
               t \notin lock.readers /\ t \notin lock.writers
    /\ \A t \in Threads :
           (threads[t].pc = "locked" /\ threads[t].writes # <<>>) => t \in lock.writers
    /\ lock.writers = {} => \A t \in Threads : threads[t].writes = <<>>
    /\ Cardinality(lock.writers) <= 1
    /\ lock.writers # {} => lock.readers = {}

\* Two threads hold the lock in read mode at once, on a datastore that a
\* writer has filled before.
C15_Witness ==
    /\ Cardinality(lock.readers) >= 2
    /\ DOMAIN edges # {}

\* What C16 asks of the result of All{start_id, limit} on the vertex map
\* stored: its ids ascend, each comes with its stored type and is not below
\* start_id, there are limit of them or all there are, and no vertex left
\* out lies before one returned.
IsFirstVertices(stored, start_id, limit, result) ==
    LET eligible == {id \in DOMAIN stored : IsSome(start_id) => id >= Unwrap(start_id)}
        returned == {result[i][1] : i \in 1..Len(result)}
    IN /\ \A i \in 1..Len(result) :
              /\ result[i][1] \in eligible
              /\ result[i][2] = stored[result[i][1]]
       /\ \A i, j \in 1..Len(result) : i < j => result[i][1] < result[j][1]
       /\ Len(result) = IF Cardinality(eligible) <= limit
                        THEN Cardinality(eligible) ELSE limit
       /\ \A id \in eligible \ returned : \A got \in returned : got < id
       /\ (IsSome(start_id) /\ Unwrap(start_id) \in DOMAIN stored /\ limit > 0) =>
              result[1][1] = Unwrap(start_id)
       /\ (~IsSome(start_id) /\ limit = U32Max) => returned = DOMAIN stored

\* C16: All{start_id, limit} returns the first limit vertices in ascending
\* order of id, from the first id >= start_id when start_id is given
\* (start_id itself when it is stored) and from the smallest id otherwise;
\* with no start_id and limit u32::MAX it returns every vertex once.
C16_AllIsOrderedPrefix ==
    /\ OnHandle =>
           \A start_id \in Option(Ids), limit \in Limits \cup {MaxId + 1} :
               IsFirstVertices(vertices, start_id, limit,
                   get_vertex_values_by_query(Datastore, VertexQueryAll(start_id, limit)))
    /\ (last.op = "get_vertices" /\ last.args[1].type = "all") =>
           IsFirstVertices(last.pre.vertices, last.args[1].start_id, last.args[1].limit,
               [i \in 1..Len(last.ret) |-> <<last.ret[i].id, last.ret[i].t>>])

\* A get_vertices for All from the largest id with limit 1 that returned
\* that vertex while a vertex with a smaller id is stored.
C16_Witness ==
    /\ last.op = "get_vertices"
    /\ last.args[1] = VertexQueryAll(Some(MaxId), 1)
    /\ Len(last.ret) = 1
    /\ last.ret[1].id = MaxId
    /\ NilUuid \in DOMAIN vertices

\* C17: Vertices{ids} returns one vertex for each listed id that is stored,
\* in the order of the list and as often as the id is listed, and
\* Edges{keys} does the same for keys; an id or key that is not stored gives
\* no entry.
C17_ListsKeepOrder ==
    /\ OnHandle =>
           /\ \A ids \in IdLists :
                  LET result == get_vertex_values_by_query(Datastore, VertexQueryVertices(ids))
                  IN /\ Keys(result) = SelectSeq(ids, LAMBDA id : id \in DOMAIN vertices)
                     /\ \A i \in 1..Len(result) : result[i][2] = vertices[result[i][1]]
           /\ \A keys \in KeyLists :
                  LET result == get_edge_values_by_query(Datastore, EdgeQueryEdges(keys))
                  IN /\ Keys(result) = SelectSeq(keys, LAMBDA key : key \in DOMAIN edges)
                     /\ \A i \in 1..Len(result) : result[i][2] = edges[result[i][1]]
    /\ (last.op = "get_vertices" /\ last.args[1].type = "vertices") =>
           /\ [i \in 1..Len(last.ret) |-> last.ret[i].id] =
                  SelectSeq(last.args[1].ids, LAMBDA id : id \in DOMAIN last.pre.vertices)
           /\ \A i \in 1..Len(last.ret) : last.ret[i].t = last.pre.vertices[last.ret[i].id]
    /\ (last.op = "get_edges" /\ last.args[1].type = "edges") =>
           /\ [i \in 1..Len(last.ret) |-> last.ret[i].key] =
                  SelectSeq(last.args[1].keys, LAMBDA key : key \in DOMAIN last.pre.edges)
           /\ \A i \in 1..Len(last.ret) :
                  last.ret[i].created_datetime = last.pre.edges[last.ret[i].key]

\* A get_vertices for a list that names a stored id twice and got the
\* vertex twice.
C17_Witness ==
    /\ last.op = "get_vertices"
    /\ last.args[1] = VertexQueryVertices(<<MaxId, MaxId>>)
    /\ Len(last.ret) = 2

\* The entries of a property map after an upsert of (owner, name) -> value
\* for every owner in owners: those entries hold value, every other entry
\* of the map before is as it was, and there is no further entry.
IsUpsert(before, after, owners, name, value) ==
    /\ DOMAIN after = DOMAIN before \cup {<<owner, name>> : owner \in owners}
    /\ \A pk \in DOMAIN after :
           after[pk] = IF pk[1] \in owners /\ pk[2] = name THEN value ELSE before[pk]

\* C18: set_vertex_properties(q, name, value) and set_edge_properties are
\* upserts over the result of q: a get_*_properties(q, name) on the state
\* the call leaves returns one entry with value for every entity q matches,
\* a value stored before under the same entity and name is replaced, the
\* entries of other names and other entities and the other three maps are
\* as before, and after a delete_vertices of an owning vertex the entry is
\* in no later result.
C18_SetPropertiesUpserts ==
    /\ last.op = "set_vertex_properties" =>
           LET q == last.args[1]
               name == last.args[2]
               value == last.args[3]
               matched == Keys(get_vertex_values_by_query(last.pre, q))
               got == txn_get_vertex_properties(Datastore, q, name).ret
           IN /\ got = [i \in 1..Len(matched) |-> VertexPropertyNew(matched[i], value)]
              /\ IsUpsert(last.pre.vertex_properties, vertex_properties,
                          {matched[i] : i \in 1..Len(matched)}, name, value)
              /\ vertices = last.pre.vertices
              /\ edges = last.pre.edges
              /\ edge_properties = last.pre.edge_properties
              /\ \A i \in 1..Len(matched) :
                     LET later == txn_delete_vertices(Datastore,
                                      VertexQueryVertices(<<matched[i]>>)).self
                     IN \A lq \in {q, AllVertices} :
                            LET entries == txn_get_vertex_properties(later, lq, name).ret
                            IN \A j \in 1..Len(entries) : entries[j].id # matched[i]
    /\ last.op = "set_edge_properties" =>
           LET q == last.args[1]
               name == last.args[2]
               value == last.args[3]
               matched == Keys(get_edge_values_by_query(last.pre, q))
               got == txn_get_edge_properties(Datastore, q, name).ret
           IN /\ got = [i \in 1..Len(matched) |-> EdgePropertyNew(matched[i], value)]
              /\ IsUpsert(last.pre.edge_properties, edge_properties,
                          {matched[i] : i \in 1..Len(matched)}, name, value)
              /\ vertices = last.pre.vertices
              /\ edges = last.pre.edges
              /\ vertex_properties = last.pre.vertex_properties
              /\ \A i \in 1..Len(matched) :
                     \A owner \in {matched[i].outbound_id, matched[i].inbound_id} :
                         LET later == txn_delete_vertices(Datastore,
                                          VertexQueryVertices(<<owner>>)).self
                         IN \A lq \in {q, AllEdges} :
                                LET entries == txn_get_edge_properties(later, lq, name).ret
                                IN \A j \in 1..Len(entries) : entries[j].key # matched[i]

\* A set_vertex_properties on a query that matches two vertices, one of
\* which had another value under the name.
C18_Witness ==
    /\ last.op = "set_vertex_properties"
    /\ Len(get_vertex_values_by_query(last.pre, last.args[1])) = 2
    /\ \E pk \in DOMAIN last.pre.vertex_properties :
           pk[2] = last.args[2] /\ last.pre.vertex_properties[pk] # last.args[3]

\* C19: get_vertex_properties(q, name) and get_edge_properties(q, name)
\* return, in the order of the result of q, one entry for each entity of
\* that result that has a property called name, with the value stored under
\* that name, and none for an entity without it: never more entries than q
\* returns, no padding, no property of another name.
C19_GetPropertiesDropsMissing ==
    /\ last.op = "get_vertex_properties" =>
           LET name == last.args[2]
               result == Keys(get_vertex_values_by_query(last.pre, last.args[1]))
               having == SelectSeq(result,
                             LAMBDA id : <<id, name>> \in DOMAIN last.pre.vertex_properties)
           IN /\ last.ret = [i \in 1..Len(having) |->
                     VertexPropertyNew(having[i], last.pre.vertex_properties[<<having[i], name>>])]
              /\ Len(last.ret) <= Len(result)
    /\ last.op = "get_edge_properties" =>
           LET name == last.args[2]
               result == Keys(get_edge_values_by_query(last.pre, last.args[1]))
               having == SelectSeq(result,
                             LAMBDA key : <<key, name>> \in DOMAIN last.pre.edge_properties)
           IN /\ last.ret = [i \in 1..Len(having) |->
                     EdgePropertyNew(having[i], last.pre.edge_properties[<<having[i], name>>])]
              /\ Len(last.ret) <= Len(result)

\* A get_vertex_properties over two vertices of which the first has a
\* property of another name only and the second the one asked for.
C19_Witness ==
    /\ last.op = "get_vertex_properties"
    /\ last.args[1] = AllVertices
    /\ Len(last.ret) = 1
    /\ last.ret[1].id = MaxId
    /\ \E pk \in DOMAIN vertex_properties : pk[1] = NilUuid /\ pk[2] # last.args[2]

\* C20: decoding the message that encodes a Vertex, Edge, EdgeKey,
\* VertexProperty, EdgeProperty, VertexQuery, EdgeQuery or list of
\* BulkInsertItem gives a value equal to the one encoded, also for an edge
\* whose created_datetime has a sub-second part and for an edge pipe with
\* any combination of type_filter, high_filter and low_filter set or not.
C20_CodecRoundTrip ==
    codec.stage = "decoded" => codec.decoded = Ok(codec.native)

\* C21: re-encoding is stable: for every vertex query and edge query, pipes
\* nested in pipes included, the message built from the value that was
\* decoded from the message of the query equals that first message.
C21_ReencodeStable ==
    (codec.stage = "reencoded" /\ codec.kind \in {"VertexQuery", "EdgeQuery"})
        => codec.again = codec.wire

\* a pipe over a pipe, with a type filter and an instant at the epoch's first
\* nanosecond, has been encoded, decoded and encoded again
C21_Witness ==
    /\ codec.stage = "reencoded"
    /\ codec.kind = "VertexQuery"
    /\ codec.native.type = "pipe"
    /\ codec.native.converter = Inbound
    /\ codec.native.edge_query.type = "pipe"
    /\ IsSome(codec.native.edge_query.type_filter)
    /\ IsSome(codec.native.edge_query.low_filter)
    /\ codec.again = codec.wire

\* What the claim says a filter field holding n reads as.
FilterReadsAs(n, filter) ==
    IF n = 0 THEN filter = None
    ELSE /\ IsSome(filter)
         /\ Unwrap(filter).secs = n \div 1000000000
         /\ Unwrap(filter).nanos = n % 1000000000

\* C22: the filters of an edge pipe travel as nanoseconds since the epoch
\* with 0 for None: a None filter is written as 0, a 0 is read as None, a
\* non-zero n is read as Some(instant) with n div 10^9 seconds and n mod 10^9
\* nanoseconds past them, and writing that instant gives n again.
C22_FilterNanos ==
    /\ (codec.stage \in {"encoded", "decoded", "reencoded"}
            /\ codec.kind = "EdgeQuery" /\ codec.native.type = "pipe")
        => /\ codec.native.high_filter = None => codec.wire.high_filter = 0
           /\ codec.native.low_filter = None => codec.wire.low_filter = 0
    /\ (codec.stage \in {"read", "forwarded"}
            /\ codec.kind = "EdgeQuery" /\ codec.wire.which = "pipe"
            /\ codec.decoded.ok)
        => /\ FilterReadsAs(codec.wire.high_filter, codec.decoded.value.high_filter)
           /\ FilterReadsAs(codec.wire.low_filter, codec.decoded.value.low_filter)
           /\ codec.stage = "forwarded"
                => /\ codec.again.high_filter = codec.wire.high_filter
                   /\ codec.again.low_filter = codec.wire.low_filter

\* a pipe message with the last nanosecond of the second second as one
\* filter and 0 as the other has been read and written again
C22_Witness ==
    /\ codec.stage = "forwarded"
    /\ codec.kind = "EdgeQuery"
    /\ codec.wire.which = "pipe"
    /\ codec.wire.high_filter = 2 * NANOS_PER_SEC - 1
    /\ codec.wire.low_filter = 0
    /\ codec.decoded.value.high_filter = Some(DateTimeNew(1, NANOS_PER_SEC - 1))
    /\ codec.decoded.value.low_filter = None

\* The identifier fields of a message of a kind, start_id of an All query
\* aside.
RECURSIVE IdentifierFields(_, _)
IdentifierFields(kind, message) ==
    LET OfKey(key) == {key.outbound_id, key.inbound_id}
        OfKeys(keys) == UNION {OfKey(keys[i]) : i \in 1..Len(keys)}
    IN CASE kind = "Vertex" -> {message.id}
         [] kind = "EdgeKey" -> OfKey(message)
         [] kind = "Edge" -> OfKey(message.key)
         [] kind = "VertexProperty" -> {message.id}
         [] kind = "EdgeProperty" -> OfKey(message.key)
         [] kind = "VertexQuery" ->
                (CASE message.which = "all" -> {}
                   [] message.which = "vertices" ->
                         {message.ids[i] : i \in 1..Len(message.ids)}
                   [] message.which = "pipe" ->
                         IdentifierFields("EdgeQuery", message.edge_query))
         [] kind = "EdgeQuery" ->
                (CASE message.which = "edges" -> OfKeys(message.keys)
                   [] message.which = "pipe" ->
                         IdentifierFields("VertexQuery", message.vertex_query))
         [] kind = "BulkInsertItem" ->
                UNION {(CASE message[i].which = "vertex" -> {message[i].vertex.id}
                          [] message[i].which = "vertex_property" -> {message[i].id}
                          [] OTHER -> OfKey(message[i].key)) : i \in 1..Len(message)}
         [] OTHER -> {}

\* The start_id fields of the All queries in a query message.
RECURSIVE StartIdFields(_)
StartIdFields(message) ==
    CASE message.which = "all" -> {message.start_id}
      [] message.which = "pipe" /\ "edge_query" \in DOMAIN message ->
            StartIdFields(message.edge_query)
      [] message.which = "pipe" /\ "vertex_query" \in DOMAIN message ->
            StartIdFields(message.vertex_query)
      [] OTHER -> {}

\* C23: identifier decoding is length-checked: the start_id of an All query
\* reads as None when the slice is empty and as Some(id) when it has 16
\* bytes (the nil uuid included), and an identifier field of 1..15 or more
\* than 16 bytes, in a Vertex, EdgeKey, property or query, makes the whole
\* read return a codec error and no value.
C23_IdentifierLengthChecked ==
    codec.stage \in {"read", "forwarded"} =>
        /\ (codec.kind = "VertexQuery" /\ codec.wire.which = "all") =>
              /\ codec.wire.start_id = <<>> =>
                    codec.decoded = Ok(VertexQueryAll(None, codec.wire.limit))
              /\ Len(codec.wire.start_id) = 16 =>
                    codec.decoded = Ok(VertexQueryAll(Some(codec.wire.start_id[16]),
                                                      codec.wire.limit))
        /\ LET fields == IdentifierFields(codec.kind, codec.wire)
                          \cup IF codec.kind \in {"VertexQuery", "EdgeQuery"}
                               THEN StartIdFields(codec.wire) ELSE {}
           IN (\E bytes \in fields : Len(bytes) \in (1..15) \cup (17..MaxSliceLen))
                => codec.decoded = Failed

\* an All message whose start_id is the 16 zero bytes has been read as
\* Some(nil uuid)
C23_Witness ==
    /\ codec.stage = "read"
    /\ codec.kind = "VertexQuery"
    /\ codec.wire.which = "all"
    /\ codec.wire.start_id = UuidAsBytes(NilUuid)
    /\ codec.decoded = Ok(VertexQueryAll(Some(NilUuid), codec.wire.limit))

\* C24: the string of a direction parses to that direction, for Outbound
\* ("outbound") and for Inbound ("inbound"), and any other string fails to
\* parse with a validation error and gives no direction.
C24_DirectionRoundTrip ==
    codec.kind = "EdgeDirection" =>
        /\ codec.stage \in {"encoded", "decoded", "reencoded"} =>
              codec.wire = IF codec.native = Outbound THEN "outbound" ELSE "inbound"
        /\ codec.stage \in {"decoded", "reencoded"} => codec.decoded = Ok(codec.native)
        /\ codec.stage \in {"read", "forwarded"} =>
              CASE codec.wire = "outbound" -> codec.decoded = Ok(Outbound)
                [] codec.wire = "inbound" -> codec.decoded = Ok(Inbound)
                [] OTHER -> /\ ~codec.decoded.ok
                            /\ codec.decoded # Failed
                            /\ "value" \notin DOMAIN codec.decoded

\* the string of Inbound has been parsed back to Inbound
C24_Witness ==
    /\ codec.stage = "decoded"
    /\ codec.kind = "EdgeDirection"
    /\ codec.native = Inbound
    /\ codec.wire = "inbound"
    /\ codec.decoded = Ok(Inbound)

\* The vertex pipe q gave result on the datastore self: one vertex per inner
\* edge up to the limit, the i-th being the endpoint of the i-th inner edge.
PipeIsEndpoints(self, q, result) ==
    LET inner == get_edge_values_by_query(self, q.edge_query)
        n == IF q.limit < Len(inner) THEN q.limit ELSE Len(inner)
    IN /\ Len(result) = n
       /\ \A i \in 1..n :
              /\ result[i][1] = IF q.converter = Outbound
                                THEN inner[i][1].outbound_id
                                ELSE inner[i][1].inbound_id
              /\ result[i][2] = self.vertices[result[i][1]]

\* C25: VertexQuery::Pipe returns min(limit, n) vertices for an inner result
\* of n edges, the i-th being the outbound (or inbound) endpoint of the i-th
\* inner edge: an endpoint met twice is returned twice and counts twice
\* toward the limit, and no endpoint is missing from the vertices in any
\* state the calls reach.
C25_VertexPipeIsEndpoints ==
    /\ OnHandle =>
           \A q \in LimitVertexPipes :
               PipeIsEndpoints(Datastore, q, get_vertex_values_by_query(Datastore, q))
    /\ (last.op = "get_vertices" /\ last.args[1].type = "pipe") =>
           PipeIsEndpoints(last.pre, last.args[1],
               [i \in 1..Len(last.ret) |-> <<last.ret[i].id, last.ret[i].t>>])

\* A get_vertices on the outbound ends of every edge that returned the same
\* vertex twice.
C25_Witness ==
    /\ last.op = "get_vertices"
    /\ last.args[1] = outbound_vertices(AllEdges, U32Max)
    /\ Len(last.ret) >= 2
    /\ last.ret[1] = last.ret[2]

\* The inbound pipes C26 ranges over and the outbound pipes it sets them
\* against: lists of ids in each order, with and without repeats.
InboundReferencePipes ==
    EdgePipes({AllVertices} \cup {VertexQueryVertices(ids) : ids \in IdLists},
              {Inbound}, Option(Types), {None, Some(1)}, {None, Some(MaxClock)},
              ReferenceLimits)

GroupedPipes ==
    EdgePipes({VertexQueryVertices(ids) : ids \in IdLists}, {Outbound}, {None},
              {None}, {None}, {U32Max})

\* The edges, in key order, that enter one of the ids and pass the filters of q.
InboundReference(self, q, ids) ==
    LET matching == SelectSeq(IterEdgeKeys(DOMAIN self.edges),
                        LAMBDA key :
                            /\ key.inbound_id \in ids
                            /\ IsSome(q.type_filter) => key.t = Unwrap(q.type_filter)
                            /\ IsSome(q.high_filter) =>
                                   self.edges[key] <= Unwrap(q.high_filter)
                            /\ IsSome(q.low_filter) =>
                                   self.edges[key] >= Unwrap(q.low_filter))
    IN [i \in 1..Len(matching) |-> <<matching[i], self.edges[matching[i]]>>]

\* The inbound pipe q gave result on the datastore self.
IsInboundPrefix(self, q, result) ==
    LET found == get_vertex_values_by_query(self, q.vertex_query)
        ids == {found[i][1] : i \in 1..Len(found)}
    IN /\ result = Take(InboundReference(self, q, ids), q.limit)
       /\ \A i, j \in 1..Len(result) : i < j => EdgeKeyLt(result[i][1], result[j][1])

\* C26: the inbound pipe returns the first limit edges, in ascending key
\* order, among those that enter a vertex of the vertex-query result and
\* pass the type filter and the inclusive time filters; neither the order
\* nor the repetition of the ids changes the result and no edge is in it
\* twice.  The outbound pipe returns the edges source by source in the
\* order of the vertex-query result, once more for each repeat of a source.
C26_InboundPipeIsOrderedPrefix ==
    /\ OnHandle =>
           /\ \A q \in InboundReferencePipes :
                  IsInboundPrefix(Datastore, q, get_edge_values_by_query(Datastore, q))
           /\ \A ids1, ids2 \in IdLists, limit \in ReferenceLimits :
                  {ids1[i] : i \in 1..Len(ids1)} = {ids2[i] : i \in 1..Len(ids2)}
                  => get_edge_values_by_query(Datastore,
                         inbound_edges(VertexQueryVertices(ids1), None, None, None, limit))
                       = get_edge_values_by_query(Datastore,
                             inbound_edges(VertexQueryVertices(ids2), None, None, None,
                                           limit))
           /\ \A q \in GroupedPipes :
                  get_edge_values_by_query(Datastore, q)
                    = OutboundReference(Datastore, q,
                          Keys(get_vertex_values_by_query(Datastore, q.vertex_query)))
    /\ (last.op = "get_edges" /\ last.args[1].type = "pipe"
        /\ last.args[1].converter = Inbound) =>
           IsInboundPrefix(last.pre, last.args[1],
               [i \in 1..Len(last.ret) |->
                   <<last.ret[i].key, last.ret[i].created_datetime>>])

\* A get_edges on the inbound pipe over a vertex listed twice returned its
\* two inbound edges once each, in key order, where the outbound pipe over
\* a source listed twice returns the edges of the source twice.
C26_Witness ==
    /\ last.op = "get_edges"
    /\ last.args[1] = inbound_edges(VertexQueryVertices(<<MaxId, MaxId>>),
                                    None, None, None, U32Max)
    /\ Len(last.ret) = 2
    /\ EdgeKeyLt(last.ret[1].key, last.ret[2].key)
    /\ LET q == outbound_edges(VertexQueryVertices(<<MaxId, MaxId>>),
                               None, None, None, U32Max)
           grouped == get_edge_values_by_query(Datastore, q)
       IN Len(grouped) = 2 /\ grouped[1] = grouped[2]

\* C28: get_vertices, get_vertex_count, get_edges, get_edge_count,
\* get_vertex_properties and get_edge_properties leave the four maps as they
\* found them, whatever the query (pipes over pipes included), and the same
\* read made again right after returns the same result.
C28_ReadsHaveNoEffect ==
    last.op \in {"get_vertices", "get_vertex_count", "get_edges", "get_edge_count",
                 "get_vertex_properties", "get_edge_properties"} =>
        /\ MapsUnchanged
        /\ LET again == Apply(Datastore, TxnCall(last.op, last.args), now)
           IN /\ again.ret = last.ret
              /\ again.self = last.pre

\* A get_vertices on a pipe over a pipe returned a vertex of a datastore
\* that holds vertices, edges and properties of both kinds.
C28_Witness ==
    /\ last.op = "get_vertices"
    /\ last.args[1] = inbound_vertices(AllEdges, 1)
    /\ Len(last.ret) = 1
    /\ DOMAIN vertex_properties # {}
    /\ DOMAIN edge_properties # {}
    /\ Datastore = last.pre

\* C29: delete_vertex_properties(q, name) and delete_edge_properties(q, name)
\* remove the entries (entity, name) of the entities q returns and nothing
\* else: the entities, their properties under other names and the
\* properties of the other entities stay, and when no such entry is stored
\* the call changes nothing and still returns Ok(()).
C29_DeletePropertiesExact ==
    /\ last.op = "delete_vertex_properties" =>
          LET pre == last.pre
              gone == {<<id, last.args[2]>> : id \in VertexIdsOf(pre, last.args[1])}
          IN /\ vertex_properties =
                    Restrict(pre.vertex_properties, DOMAIN pre.vertex_properties \ gone)
             /\ vertices = pre.vertices
             /\ edges = pre.edges
             /\ edge_properties = pre.edge_properties
             /\ last.ret = <<>>
             /\ gone \cap DOMAIN pre.vertex_properties = {} => MapsUnchanged
    /\ last.op = "delete_edge_properties" =>
          LET pre == last.pre
              gone == {<<key, last.args[2]>> : key \in EdgeKeysOf(pre, last.args[1])}
          IN /\ edge_properties =
                    Restrict(pre.edge_properties, DOMAIN pre.edge_properties \ gone)
             /\ vertices = pre.vertices
             /\ edges = pre.edges
             /\ vertex_properties = pre.vertex_properties
             /\ last.ret = <<>>
             /\ gone \cap DOMAIN pre.edge_properties = {} => MapsUnchanged

\* A delete_vertex_properties removed the property of one name from a vertex
\* that keeps its property of another name, and left the property of that
\* name on a vertex the query did not return.
C29_Witness ==
    /\ last.op = "delete_vertex_properties"
    /\ last.args[1] = VertexQueryVertices(<<MaxId>>)
    /\ <<MaxId, last.args[2]>> \in DOMAIN last.pre.vertex_properties
    /\ <<MaxId, last.args[2]>> \notin DOMAIN vertex_properties
    /\ \E pk \in DOMAIN vertex_properties : pk[1] = MaxId
    /\ <<NilUuid, last.args[2]>> \in DOMAIN vertex_properties

\* The thread t is in a call; it holds the lock.
InCall(t) == threads[t].pc # "idle"

Holds(t) == t \in lock.readers \cup lock.writers

\* The requests of t that the lock has not served yet.
Requests(t) == Len(SelectSeq(lock.queue, LAMBDA x : x = t))

\* C27: every operation takes the lock once, asks for it no second time
\* while it holds it and gives it back when it returns; so, the lock being
\* fair, no reachable state has operations pending that can all take no
\* further step, and every operation that was started returns.
C27_OperationsComplete ==
    /\ [](\A t \in Threads :
            /\ Requests(t) = IF threads[t].pc = "waiting" THEN 1 ELSE 0
            /\ Holds(t) <=> threads[t].pc \in {"locked", "evaluated"}
            /\ Holds(t) => Requests(t) = 0)
    /\ []((\E t \in Threads : InCall(t)) =>
            \E t \in Threads :
                \/ ENABLED (FairLock(t) /\ AcquireRead(t))
                \/ CanEvaluate(t)
                \/ CanAcquireWrite(t)
                \/ ENABLED Mutate(t)
                \/ ENABLED Release(t))
    /\ \A t \in Threads : InCall(t) ~> ~InCall(t)

\* A delete_vertices is the first to wait for the lock and cannot have it,
\* since a writer holds it and is in the middle of its writes.
C27_Witness ==
    /\ \E w \in lock.writers : threads[w].writes # <<>>
    /\ \E t \in Threads :
           /\ threads[t].pc = "waiting"
           /\ threads[t].call.op = "delete_vertices"
           /\ FairLock(t)
           /\ ~CanAcquireWrite(t)

====
